---------------------------- MODULE Spec2Model ----------------------------
(***************************************************************************)
(* A model of the wmcc-core mempool (src/src/mempool/mempool.js).          *)
(*                                                                         *)
(* The mempool object is a record `m` (map, spents, size, orphans,         *)
(* waiting, rejects, tip, ...).  Every JavaScript method is an operator    *)
(* from a mempool record to a mempool record, written statement by         *)
(* statement; an exception is the field `err` of the result, and every     *)
(* caller stops at the first error the way a throw unwinds the stack.      *)
(* The actions of the specification apply the public operations to the     *)
(* variables.                                                              *)
(***************************************************************************)
EXTENDS Integers, Sequences, FiniteSets, TLC

VARIABLES
    map,        \* this.map      : tx hash -> MempoolEntry
    spents,     \* this.spents   : outpoint -> hash of the spending entry
    size,       \* this.size
    orphans,    \* this.orphans  : tx hash -> Orphan
    waiting,    \* this.waiting  : parent hash -> Set of orphan hashes (insertion order)
    rejects,    \* this.rejects  : the rolling filter, as the set it holds
    tip,        \* this.tip
    chain,      \* the chain collaborator: the connected blocks, oldest first
    now,        \* util.now()
    nprio,      \* number of prioritise calls made so far
    steps,      \* number of operations made so far
    last,       \* the operation that produced this state, and its outcome
    calls,      \* the add_tx calls in flight (concurrent specification)
    locks,      \* the locker: holder and pending jobs
    options,    \* this.options, set at construction
    flagged,    \* <<t, p>>: transaction t fails check p, or has property p
    cache       \* this.cache (MempoolCache) and this.lastFlush

vars == <<map, spents, size, orphans, waiting, rejects, tip, chain, now,
          nprio, steps, last, calls, locks, options, flagged, cache>>

-----------------------------------------------------------------------------
(* Bounds of the model. *)

MaxBlocks == 2      \* blocks connected at any time
MaxBlockTxs == 2    \* non-coinbase transactions in a block
MaxTime == 1        \* clock ticks
MaxPrio == 1        \* prioritise calls in a behaviour
MaxOps == 5         \* steps (operations and clock ticks) in a behaviour

(* Options of the mempool (MempoolOptions), scaled down. *)

expiryTime == 1

\* the options the specifications below vary
DefaultOptions ==
    [maxSize |-> 10, maxOrphans |-> 2, maxAncestors |-> 2,
     requireStandard |-> TRUE, replaceByFee |-> FALSE, persistent |-> FALSE]

maxSize == options.maxSize
maxOrphans == options.maxOrphans
maxAncestors == options.maxAncestors
requireStandard == options.requireStandard
replaceByFee == options.replaceByFee
persistent == options.persistent

-----------------------------------------------------------------------------
(* The transactions offered to the mempool.  A hash is a string; an        *)
(* outpoint is <<hash, index>>.  "f" is a funding transaction that is      *)
(* confirmed before the model starts and has FundOuts outputs.             *)

FUND == "f"
FundOuts == 4
GENESIS == [height |-> 0, txs |-> <<>>]

Tx == {"pa", "a", "b", "c", "d", "w"}

\* a fixed enumeration of Tx
TxOrder == <<"pa", "a", "b", "c", "d", "w">>

\*  pa spends f:0;  w spends f:0 too (a conflict of pa);  a spends pa:0;
\*  b spends f:2;  c spends a:0, b:0 and f:1;  d spends f:3.  Where w is
\*  flagged "other inputs" it spends f:2 and f:1 instead, in that order (a
\*  conflict of b and of c); where it is flagged "input of a" it spends
\*  pa:0 (a child of pa and a conflict of a).
Inputs(t) ==
    CASE t = "pa" -> << <<FUND, 0>> >>
      [] t = "a"  -> << <<"pa", 0>> >>
      [] t = "b"  -> << <<FUND, 2>> >>
      [] t = "c"  -> << <<"a", 0>>, <<"b", 0>>, <<FUND, 1>> >>
      [] t = "d"  -> << <<FUND, 3>> >>
      [] t = "w"  -> IF <<"w", "other inputs">> \in flagged
                     THEN << <<FUND, 2>>, <<FUND, 1>> >>
                     ELSE IF <<"w", "input of a">> \in flagged
                     THEN << <<"pa", 0>> >>
                     ELSE << <<FUND, 0>> >>

\* tx.outputs.length, entry.size, entry.memUsage(), entry.fee, tx.locktime
nout(t) == 1
entrySize(t) == IF t = "d" THEN 4 ELSE 1
memUsage(t) == IF t = "d" THEN 9 ELSE 2
entryFee(t) ==
    CASE t = "b" -> 1
      [] t = "c" -> 3
      [] t = "d" -> 12
      [] OTHER -> 2
locktime(t) == IF t = "d" THEN 1 ELSE 0

\* tx.isFinal(height, ts), for a locktime that is a height
isFinal(t, height) == locktime(t) < height

\* The verdicts of the context-free checks and of the collaborators that
\* verify locks, inputs and scripts, by the name of the check.
passes(t, check) == <<t, check>> \notin flagged

\* The properties the code asks a transaction for, by name (isCoinbase,
\* isRBF, hasWitness, sequence locks, spending a coinbase).
has(t, property) == <<t, property>> \in flagged

\* The transactions a block may hold.
Minable == {"pa", "a", "w"}

PeerIds == {7}

InputSet(t) == {Inputs(t)[i] : i \in 1..Len(Inputs(t))}

Range(s) == {s[i] : i \in 1..Len(s)}

\* tx.getPrevout(): the distinct previous hashes, in input order
RECURSIVE PrevoutFrom(_, _, _)
PrevoutFrom(ins, i, acc) ==
    IF i > Len(ins) THEN acc
    ELSE IF ins[i][1] \in Range(acc) THEN PrevoutFrom(ins, i + 1, acc)
    ELSE PrevoutFrom(ins, i + 1, Append(acc, ins[i][1]))

getPrevout(t) == PrevoutFrom(Inputs(t), 1, <<>>)

\* s without the element x
RECURSIVE SeqRemove(_, _)
SeqRemove(s, x) ==
    IF s = <<>> THEN <<>>
    ELSE IF Head(s) = x THEN SeqRemove(Tail(s), x)
    ELSE <<Head(s)>> \o SeqRemove(Tail(s), x)

\* the elements of TxOrder that are in S, in that order
RECURSIVE Ordered(_, _)
Ordered(S, i) ==
    IF i > Len(TxOrder) THEN <<>>
    ELSE IF TxOrder[i] \in S THEN <<TxOrder[i]>> \o Ordered(S, i + 1)
    ELSE Ordered(S, i + 1)

\* f without the key k, and f with k set to v
MapDel(f, k) == [x \in DOMAIN f \ {k} |-> f[x]]
MapPut(f, k, v) == [x \in DOMAIN f \cup {k} |-> IF x = k THEN v ELSE f[x]]
EmptyMap == [x \in {} |-> 0]

RECURSIVE SumOver(_, _)
SumOver(S, f) ==
    IF S = {} THEN 0
    ELSE LET x == CHOOSE y \in S : TRUE IN f[x] + SumOver(S \ {x}, f)

-----------------------------------------------------------------------------
(* The chain collaborator. *)

RECURSIVE Flatten(_)
Flatten(blocks) ==
    IF blocks = <<>> THEN <<>> ELSE Head(blocks) \o Flatten(Tail(blocks))

Confirmed(ch) == Range(Flatten(ch))
SpentOnChain(ch) == UNION {InputSet(t) : t \in Confirmed(ch)}
chainHeight(ch) == Len(ch)

OutputExists(ch, op) ==
    \/ op[1] = FUND /\ op[2] < FundOuts
    \/ op[1] \in Confirmed(ch) /\ op[2] < nout(op[1])

\* chain.readCoin(prevout): the coin, when it exists and is unspent
readCoin(ch, op) == OutputExists(ch, op) /\ op \notin SpentOnChain(ch)

\* chain.hasCoins(tx): the chain holds unspent outputs of tx
hasCoins(ch, t) ==
    t \in Confirmed(ch)
    /\ \E i \in 0..(nout(t) - 1) : <<t, i>> \notin SpentOnChain(ch)

\* chain.verifyFinal(tip, tx, flags): tx.isFinal(tip.height + 1, mtp)
verifyFinal(ch, t) == isFinal(t, chainHeight(ch) + 1)

\* a block hash, as the height of the block and what it holds
chainTip(ch) ==
    IF ch = <<>> THEN GENESIS ELSE [height |-> Len(ch), txs |-> ch[Len(ch)]]
prevTip(ch) == chainTip(SubSeq(ch, 1, Len(ch) - 1))

\* the sequences of at most MaxBlockTxs minable transactions that the chain
\* accepts as the next block: each one spends unspent outputs
RECURSIVE ValidBlock(_, _)
ValidBlock(ch, txs) ==
    IF txs = <<>> THEN TRUE
    ELSE /\ Head(txs) \notin Confirmed(ch)
         /\ \A op \in InputSet(Head(txs)) : readCoin(ch, op)
         /\ ValidBlock(Append(ch, <<Head(txs)>>), Tail(txs))

BlockSeqs == UNION {[1..n -> Minable] : n \in 1..MaxBlockTxs}

-----------------------------------------------------------------------------
(* Errors and events.  A mempool that has thrown (err set) passes through  *)
(* every later statement unchanged, up to the catch that handles it: each  *)
(* operator below returns such a mempool as it is.                         *)

NoErr == [type |-> "none", code |-> "", reason |-> "", malleated |-> FALSE]

VerifyError(code, reason, malleated) ==
    [type |-> "VerifyError", code |-> code, reason |-> reason,
     malleated |-> malleated]

AssertionError(where) ==
    [type |-> "AssertionError", code |-> "", reason |-> where,
     malleated |-> FALSE]

\* an exception that is not a VerifyError, thrown by a collaborator
IOError == [type |-> "Error", code |-> "", reason |-> "io",
            malleated |-> FALSE]

ok(m) == m.err.type = "none"
throw(m, e) == [m EXCEPT !.err = e]
caught(m) == [m EXCEPT !.err = NoErr]
emit(m, name, t) ==
    IF ok(m) THEN [m EXCEPT !.events = Append(@, [ev |-> name, tx |-> t])]
    ELSE m

\* this.emit('bad orphan', err, id): the event carries the error caught and
\* the peer id
emitBad(m, t, e, id) ==
    IF ok(m)
    THEN [m EXCEPT !.events = Append(@, [ev |-> "bad orphan", tx |-> t,
                                         err |-> e, id |-> id])]
    ELSE m

-----------------------------------------------------------------------------
(* The cache (MempoolCache).  db is FALSE when this.db is null, which is    *)
(* the case without the persistent option.  disk is what the database       *)
(* holds: the version under key V (-1 when the key is absent), the tip      *)
(* under key R, whether the fee blob F is there, and the hashes h that have *)
(* an entry under e(h).  batch is this.batch, the writes not yet flushed.   *)
(* lastFlush is this.lastFlush of the mempool; it is kept only with a       *)
(* database, because flush() does nothing without one.  No fee estimator    *)
(* is configured (this.fees is null), so the mempool never writes F.        *)

VERSION == 2
flushInterval == 0      \* the 10 seconds of _addTX, scaled to the clock

NoTip == [height |-> -1, txs |-> <<>>]
NoDisk == [V |-> -1, R |-> NoTip, F |-> FALSE, e |-> {}]
NoCache == [db |-> FALSE, disk |-> NoDisk, batch |-> <<>>, lastFlush |-> 0]

\* batch.put(key, value) and batch.del(key) on this.batch
batchPut(m, key, hash) ==
    [m EXCEPT !.cache.batch =
        Append(@, [op |-> "put", key |-> key, tip |-> hash])]
batchDel(m, key) ==
    [m EXCEPT !.cache.batch =
        Append(@, [op |-> "del", key |-> key, tip |-> NoTip])]

\* cache.save(entry), cache.remove(hash), cache.sync(hash)
save(m, t) == IF ~ok(m) \/ ~m.cache.db THEN m ELSE batchPut(m, t, NoTip)
remove(m, t) == IF ~ok(m) \/ ~m.cache.db THEN m ELSE batchDel(m, t)
sync(m, hash) == IF ~ok(m) \/ ~m.cache.db THEN m ELSE batchPut(m, "R", hash)

\* batch.write(): the database after the operations of the batch, in order
RECURSIVE write(_, _)
write(disk, batch) ==
    IF batch = <<>> THEN disk
    ELSE IF Head(batch).key = "R"
    THEN write([disk EXCEPT !.R = Head(batch).tip], Tail(batch))
    ELSE IF Head(batch).op = "put"
    THEN write([disk EXCEPT !.e = @ \cup {Head(batch).key}], Tail(batch))
    ELSE write([disk EXCEPT !.e = @ \ {Head(batch).key}], Tail(batch))

\* cache.flush()
flush(m) ==
    IF ~ok(m) \/ ~m.cache.db THEN m
    ELSE [m EXCEPT !.cache.disk = write(@, m.cache.batch),
                   !.cache.batch = <<>>]

\* cache.clear()
clear(m) == IF ~ok(m) THEN m ELSE [m EXCEPT !.cache.batch = <<>>]

\* the database after cache.wipe(): the entry keys and F deleted, V and R
\* written, in a batch of its own
\* a wipe that rewrites the version and the tip and leaves the entry keys
wiped_keepEntries(disk, hash) ==
    [V |-> VERSION, R |-> hash, F |-> FALSE, e |-> disk.e]

wiped(disk, hash) == [V |-> VERSION, R |-> hash, F |-> FALSE, e |-> {}]

wipe(m) ==
    IF ~ok(m) THEN m
    ELSE [m EXCEPT !.cache.disk = wiped(@, chainTip(m.chain))]

\* a verify() that does not compare the stored tip with the tip of the chain
verified_anyTip(disk, hash) ==
    IF disk.V = -1 THEN [disk EXCEPT !.V = VERSION, !.R = hash]
    ELSE IF disk.V # VERSION THEN wiped(disk, hash)
    ELSE disk

\* the database after cache.verify(): an empty store is initialised; a
\* store of another version, or of another tip, is wiped
verified(disk, hash) ==
    IF disk.V = -1 THEN [disk EXCEPT !.V = VERSION, !.R = hash]
    ELSE IF disk.V # VERSION THEN wiped(disk, hash)
    ELSE IF disk.R # hash THEN wiped(disk, hash)
    ELSE disk

-----------------------------------------------------------------------------
(* Accessors. *)

hasEntry(m, h) == h \in DOMAIN m.map
\* a faulty hasOrphan that finds no orphan
hasOrphan_never(m, h) == FALSE

hasOrphan(m, h) == h \in DOMAIN m.orphans
hasReject(m, h) == h \in m.rejects
isSpent(m, h, i) == <<h, i>> \in DOMAIN m.spents
getSpent(m, h, i) == m.spents[<<h, i>>]

\* locker.hasPending(hash): a job of that name waits for the lock
hasPending(m, h) == h \in m.pending

\* a faulty variant of exists that does not look in this.map
exists_noEntry(m, h) ==
    IF hasPending(m, h) THEN TRUE
    ELSE hasOrphan(m, h)

exists(m, h) ==
    IF hasPending(m, h) THEN TRUE
    ELSE IF hasOrphan(m, h) THEN TRUE
    ELSE hasEntry(m, h)

isDoubleSpend(m, t) == \E op \in InputSet(t) : isSpent(m, op[1], op[2])

\* a faulty hasDepends that finds no parent in the pool
hasDepends_never(m, t) == FALSE

hasDepends(m, t) == \E op \in InputSet(t) : hasEntry(m, op[1])

\* MempoolEntry.fromTX(tx, view, height)
fromTX(m, t) ==
    [size |-> entrySize(t), fee |-> entryFee(t), deltaFee |-> entryFee(t),
     descFee |-> entryFee(t), descSize |-> entrySize(t), time |-> m.now,
     priority |-> 1, coinbase |-> has(t, "coinbase input")]

-----------------------------------------------------------------------------
(* Tracking. *)

\* Faulty variants the invariants below must tell from the code: untrackEntry
\* leaving the outpoints of the entry in spents, trackEntry not counting the
\* entry in size.
untrackEntry_keepSpents(m, t) ==
    IF ~ok(m) THEN m
    ELSE IF t \notin DOMAIN m.map
    THEN throw(m, AssertionError("untrackEntry"))
    ELSE [m EXCEPT
            !.map = MapDel(@, t),
            !.size = @ - memUsage(t)]

trackEntry_noSize(m, t, e) ==
    IF ~ok(m) THEN m
    ELSE IF t \in DOMAIN m.map THEN throw(m, AssertionError("trackEntry"))
    ELSE [m EXCEPT
            !.map = MapPut(@, t, e),
            !.spents = [k \in DOMAIN @ \cup InputSet(t) |->
                          IF k \in InputSet(t) THEN t ELSE @[k]]]

\* the memory usage of the largest of the entries S
largest(S) ==
    CHOOSE u \in {memUsage(x) : x \in S} : \A x \in S : memUsage(x) <= u

\* m.over is not a field of the program.  It records that, during the
\* operation, trackEntry has left this.size above maxSize by more than the
\* memory usage of the largest entry then in this.map.
trackEntry(m, t, e) ==
    IF ~ok(m) THEN m
    ELSE IF t \in DOMAIN m.map THEN throw(m, AssertionError("trackEntry"))
    ELSE [m EXCEPT
            !.map = MapPut(@, t, e),
            !.spents = [k \in DOMAIN @ \cup InputSet(t) |->
                          IF k \in InputSet(t) THEN t ELSE @[k]],
            !.size = @ + memUsage(t),
            !.over = @ \/ m.size + memUsage(t) >
                             maxSize + largest(DOMAIN m.map \cup {t})]

untrackEntry(m, t) ==
    IF ~ok(m) THEN m
    ELSE IF t \notin DOMAIN m.map
    THEN throw(m, AssertionError("untrackEntry"))
    ELSE [m EXCEPT
            !.map = MapDel(@, t),
            !.spents = [k \in DOMAIN @ \ InputSet(t) |-> @[k]],
            !.size = @ - memUsage(t)]

removeEntry(m, t) == emit(remove(untrackEntry(m, t), t), "remove entry", t)

-----------------------------------------------------------------------------
(* Ancestor traversal and the fee callbacks. *)

nop(m, parent, child) == m

addFee(m, parent, child) ==
    [m EXCEPT !.map[parent].descFee = @ + m.map[child].deltaFee,
              !.map[parent].descSize = @ + m.map[child].size]

removeFee(m, parent, child) ==
    [m EXCEPT !.map[parent].descFee = @ - m.map[child].descFee,
              !.map[parent].descSize = @ - m.map[child].descSize]

prePrioritise(m, parent, child) ==
    [m EXCEPT !.map[parent].descFee = @ - m.map[child].deltaFee]

postPrioritise(m, parent, child) ==
    [m EXCEPT !.map[parent].descFee = @ + m.map[child].deltaFee]

\* map(parent, child) for the callback named f
callMap(f, m, parent, child) ==
    CASE f = "nop" -> nop(m, parent, child)
      [] f = "addFee" -> addFee(m, parent, child)
      [] f = "removeFee" -> removeFee(m, parent, child)
      [] f = "prePrioritise" -> prePrioritise(m, parent, child)
      [] f = "postPrioritise" -> postPrioritise(m, parent, child)

RECURSIVE countFrom(_, _, _, _, _, _)

\* after the recursive call on a parent: stop when the set passed the cap,
\* go on with the next input otherwise
countNext(r, t, i, child, f) ==
    IF Cardinality(r.set) > maxAncestors THEN r
    ELSE countFrom(r.m, t, i + 1, r.set, child, f)

\* after set.add(hash) and map(parent, child)
countParent(m1, t, i, set1, child, f) ==
    IF Cardinality(set1) > maxAncestors THEN [m |-> m1, set |-> set1]
    ELSE countNext(countFrom(m1, Inputs(t)[i][1], 1, set1, child, f),
                   t, i, child, f)

\* _countAncestors(entry, set, child, map), from input i of entry on:
\* the mempool after the callbacks, and the set
countFrom(m, t, i, set, child, f) ==
    IF i > Len(Inputs(t)) THEN [m |-> m, set |-> set]
    ELSE IF ~hasEntry(m, Inputs(t)[i][1])
    THEN countFrom(m, t, i + 1, set, child, f)
    ELSE IF Inputs(t)[i][1] \in set
    THEN countFrom(m, t, i + 1, set, child, f)
    ELSE countParent(callMap(f, m, Inputs(t)[i][1], child), t, i,
                     set \cup {Inputs(t)[i][1]}, child, f)

_countAncestors(m, t, set, child, f) == countFrom(m, t, 1, set, child, f)

countAncestors(m, t) == Cardinality(_countAncestors(m, t, {}, t, "nop").set)

updateAncestors(m, t, f) ==
    IF ~ok(m) THEN m ELSE _countAncestors(m, t, {}, t, f).m

-----------------------------------------------------------------------------
(* Removal with spenders. *)

\* removeSpenders(entry), from output i on
RECURSIVE removeSpendersFrom(_, _, _)
removeSpendersFrom(m, t, i) ==
    IF ~ok(m) \/ i >= nout(t) THEN m
    ELSE IF ~isSpent(m, t, i) THEN removeSpendersFrom(m, t, i + 1)
    ELSE removeSpendersFrom(
             removeEntry(removeSpendersFrom(m, getSpent(m, t, i), 0),
                         getSpent(m, t, i)),
             t, i + 1)

\* a faulty removeSpenders that removes the spender of the first output
\* without the spenders of that spender
removeSpenders_shallow(m, t) ==
    IF ~ok(m) \/ ~isSpent(m, t, 0) THEN m
    ELSE removeEntry(m, getSpent(m, t, 0))

removeSpenders(m, t) == removeSpendersFrom(m, t, 0)

evictEntry(m, t) ==
    removeEntry(updateAncestors(removeSpenders(m, t), t, "removeFee"), t)

-----------------------------------------------------------------------------
(* The eviction comparator and limitSize. *)

\* a useDesc that takes the descendant rate when it is the lower one
useDesc_lower(a) == a.descFee * a.size < a.deltaFee * a.descSize

useDesc(a) == a.descFee * a.size > a.deltaFee * a.descSize

\* the fee and the size cmpRate takes for an entry
rateFee(a) == IF useDesc(a) THEN a.descFee ELSE a.deltaFee
rateSize(a) == IF useDesc(a) THEN a.descSize ELSE a.size

cmpRate(a, b) ==
    IF rateFee(a) * rateSize(b) = rateSize(a) * rateFee(b)
    THEN a.time - b.time
    ELSE rateFee(a) * rateSize(b) - rateSize(a) * rateFee(b)

\* the entries of the heap that no other entry precedes
leastOf(queue) ==
    {t \in DOMAIN queue :
       \A u \in DOMAIN queue : cmpRate(queue[t], queue[u]) <= 0}

\* the first or the last of a non-empty list of candidates
pick(cands, tie) == IF tie = "first" THEN cands[1] ELSE cands[Len(cands)]

\* a shift that takes an entry that precedes no other entry of the heap
shift_greatest(queue, tie) ==
    pick(Ordered({t \in DOMAIN queue :
                    \A u \in DOMAIN queue :
                       cmpRate(queue[t], queue[u]) >= 0} \cup
                 (IF \E t \in DOMAIN queue : \A u \in DOMAIN queue :
                        cmpRate(queue[t], queue[u]) >= 0
                  THEN {} ELSE DOMAIN queue), 1), tie)

\* queue.shift(): an entry that no other entry of the heap precedes; among
\* several the heap's layout decides, which m.tie stands for
shift(queue, tie) ==
    pick(Ordered(IF leastOf(queue) = {} THEN DOMAIN queue
                 ELSE leastOf(queue), 1), tie)

\* size <= maxSize - maxSize / 10
underThreshold(sz) == 10 * sz <= 10 * maxSize - maxSize

\* a faulty first loop that does not skip the entries with in-pool parents
RECURSIVE limitExpire_all(_, _, _)
limitExpire_all(m, todo, queue) ==
    IF ~ok(m) \/ todo = <<>> THEN [m |-> m, queue |-> queue]
    ELSE IF ~hasEntry(m, Head(todo))
    THEN limitExpire_all(m, Tail(todo), queue)
    ELSE IF m.now < m.map[Head(todo)].time + expiryTime
    THEN limitExpire_all(m, Tail(todo),
                         MapPut(queue, Head(todo), m.map[Head(todo)]))
    ELSE limitExpire_all(evictEntry(m, Head(todo)), Tail(todo), queue)

\* The first loop of limitSize over this.map.values().  Entries deleted
\* during the loop are not visited.  The loop evicts the expired entries
\* without in-pool parents (with their spenders) and queues the other
\* entries without in-pool parents, whatever the order of the visit.
RECURSIVE limitExpire(_, _, _)
limitExpire(m, todo, queue) ==
    IF ~ok(m) \/ todo = <<>> THEN [m |-> m, queue |-> queue]
    ELSE IF ~hasEntry(m, Head(todo)) THEN limitExpire(m, Tail(todo), queue)
    ELSE IF hasDepends(m, Head(todo)) THEN limitExpire(m, Tail(todo), queue)
    ELSE IF m.now < m.map[Head(todo)].time + expiryTime
    THEN limitExpire(m, Tail(todo),
                     MapPut(queue, Head(todo), m.map[Head(todo)]))
    ELSE limitExpire(evictEntry(m, Head(todo)), Tail(todo), queue)

RECURSIVE limitEvict(_, _)

\* after an eviction of the second loop: stop under the threshold
limitNext(m1, queue) ==
    IF ~ok(m1) THEN m1
    ELSE IF underThreshold(m1.size) THEN m1
    ELSE limitEvict(m1, queue)

\* the second loop of limitSize, t being queue.shift()
limitShift(m, queue, t) ==
    IF ~hasEntry(m, t) THEN throw(m, AssertionError("limitSize"))
    ELSE limitNext(evictEntry(m, t), MapDel(queue, t))

limitEvict(m, queue) ==
    IF DOMAIN queue = {} THEN m
    ELSE limitShift(m, queue, shift(queue, m.tie))

\* return !this.hasEntry(added)
limitResult(m, added) == [m |-> m, r |-> ~hasEntry(m, added)]

\* limitSize after its first loop
limitQueued(p, added) ==
    IF ~ok(p.m) THEN [m |-> p.m, r |-> FALSE]
    ELSE IF underThreshold(p.m.size) THEN limitResult(p.m, added)
    ELSE limitResult(limitEvict(p.m, p.queue), added)

\* limitSize(added): the mempool afterwards and the value returned
limitSize(m, added) ==
    IF ~ok(m) THEN [m |-> m, r |-> FALSE]
    ELSE IF m.size <= maxSize THEN [m |-> m, r |-> FALSE]
    ELSE limitQueued(limitExpire(m, Ordered(DOMAIN m.map, 1), EmptyMap),
                     added)

-----------------------------------------------------------------------------
(* Orphans. *)

\* the value insertTX and maybeOrphan return: null, or a list of hashes
Null == [null |-> TRUE, missing |-> <<>>]
Missing(hashes) == [null |-> FALSE, missing |-> hashes]

\* set.delete(hash), and this.waiting.delete(prev) when the set is empty
waitingWithout(m, prev, set) ==
    IF set = <<>> THEN [m EXCEPT !.waiting = MapDel(@, prev)]
    ELSE [m EXCEPT !.waiting[prev] = set]

\* the loop of removeOrphan over tx.getPrevout()
RECURSIVE removeOrphanFrom(_, _, _)
removeOrphanFrom(m, hash, prevs) ==
    IF prevs = <<>> THEN m
    ELSE IF Head(prevs) \notin DOMAIN m.waiting
    THEN removeOrphanFrom(m, hash, Tail(prevs))
    ELSE IF hash \notin Range(m.waiting[Head(prevs)])
    THEN throw(m, AssertionError("removeOrphan"))
    ELSE removeOrphanFrom(
             waitingWithout(m, Head(prevs),
                            SeqRemove(m.waiting[Head(prevs)], hash)),
             hash, Tail(prevs))

\* this.orphans.delete(hash)
deleteOrphan(m, hash) ==
    IF ok(m) THEN [m EXCEPT !.orphans = MapDel(@, hash)] ELSE m

removeOrphan(m, hash) ==
    IF ~ok(m) THEN m
    ELSE IF ~hasOrphan(m, hash) THEN m
    ELSE emit(deleteOrphan(removeOrphanFrom(m, hash, getPrevout(hash)), hash),
              "remove orphan", hash)

\* a limitOrphans that never removes an orphan
limitOrphans_never(m) == m

\* limitOrphans(): m.rand is random.randomRange(0, this.orphans.size)
limitOrphans(m) ==
    IF Cardinality(DOMAIN m.orphans) < maxOrphans THEN m
    ELSE IF Cardinality(DOMAIN m.orphans) = 0
    THEN throw(m, AssertionError("limitOrphans"))
    ELSE removeOrphan(m, Ordered(DOMAIN m.orphans, 1)
                            [(m.rand % Cardinality(DOMAIN m.orphans)) + 1])

\* the loop of resolveOrphans over set.keys()
RECURSIVE resolveFrom(_, _, _)
resolveFrom(m, set, resolved) ==
    IF set = <<>> THEN [m |-> m, resolved |-> resolved]
    ELSE IF ~hasOrphan(m, Head(set))
    THEN [m |-> throw(m, AssertionError("resolveOrphans")),
          resolved |-> resolved]
    ELSE IF m.orphans[Head(set)].missing - 1 = 0
    THEN resolveFrom([m EXCEPT !.orphans = MapDel(@, Head(set))],
                     Tail(set),
                     Append(resolved, [tx |-> Head(set),
                                       id |-> m.orphans[Head(set)].id]))
    ELSE resolveFrom([m EXCEPT !.orphans[Head(set)].missing = @ - 1],
                     Tail(set), resolved)

\* a faulty end of resolveOrphans that leaves the waiting set in place
resolvedFor_keepSet(r, parent) == r

\* this.waiting.delete(parent), after the loop
resolvedFor(r, parent) ==
    IF ~ok(r.m) THEN r
    ELSE [m |-> [r.m EXCEPT !.waiting = MapDel(@, parent)],
          resolved |-> r.resolved]

resolveOrphans(m, parent) ==
    IF parent \notin DOMAIN m.waiting THEN [m |-> m, resolved |-> <<>>]
    ELSE IF m.waiting[parent] = <<>>
    THEN [m |-> throw(m, AssertionError("resolveOrphans")),
          resolved |-> <<>>]
    ELSE resolvedFor(resolveFrom(m, m.waiting[parent], <<>>), parent)

\* getCoinView(tx): the outpoints of tx the view holds a coin for
getCoinView(m, t) ==
    {op \in InputSet(t) :
       IF hasEntry(m, op[1]) THEN op[2] < nout(op[1])
       ELSE readCoin(m.chain, op)}

\* the first loop of maybeOrphan: "reject" when it returns early, and the
\* hashes collected otherwise, in insertion order
RECURSIVE missingFrom(_, _, _, _, _)
missingFrom(m, t, view, i, hashes) ==
    IF i > Len(Inputs(t)) THEN [stop |-> FALSE, hashes |-> hashes]
    ELSE IF Inputs(t)[i] \in view
    THEN missingFrom(m, t, view, i + 1, hashes)
    ELSE IF hasReject(m, Inputs(t)[i][1])
    THEN [stop |-> TRUE, hashes |-> hashes]
    ELSE IF hasEntry(m, Inputs(t)[i][1])
    THEN [stop |-> TRUE, hashes |-> hashes]
    ELSE missingFrom(m, t, view, i + 1,
                     IF Inputs(t)[i][1] \in Range(hashes) THEN hashes
                     ELSE Append(hashes, Inputs(t)[i][1]))

\* this.waiting.get(prev).add(hash), on the set found or created for prev
waitingWith(m, prev, set, hash) ==
    [m EXCEPT !.waiting =
        MapPut(@, prev,
               IF hash \in Range(set) THEN set ELSE Append(set, hash))]

\* the second loop of maybeOrphan
RECURSIVE waitOn(_, _, _)
waitOn(m, hash, prevs) ==
    IF prevs = <<>> THEN m
    ELSE waitOn(waitingWith(m, Head(prevs),
                            IF Head(prevs) \in DOMAIN m.waiting
                            THEN m.waiting[Head(prevs)] ELSE <<>>,
                            hash),
                hash, Tail(prevs))

\* maybeOrphan after limitOrphans(): the waiting sets, this.orphans.set and
\* the event
orphaned(m1, t, hashes, id) ==
    IF ~ok(m1) THEN [m |-> m1, r |-> Null]
    ELSE [m |-> emit([waitOn(m1, t, hashes) EXCEPT !.orphans =
                          MapPut(@, t, [missing |-> Len(hashes), id |-> id])],
                     "add orphan", t),
          r |-> Missing(hashes)]

\* maybeOrphan after its first loop
maybeScanned(m, t, scan, id) ==
    IF scan.stop
    THEN [m |-> [m EXCEPT !.rejects = @ \cup {t}], r |-> Missing(<<>>)]
    ELSE IF scan.hashes = <<>> THEN [m |-> m, r |-> Null]
    ELSE IF ~passes(t, "getWeight")
    THEN [m |-> IF ~has(t, "hasWitness")
                THEN [m EXCEPT !.rejects = @ \cup {t}] ELSE m,
          r |-> Missing(<<>>)]
    ELSE IF maxOrphans = 0 THEN [m |-> m, r |-> Missing(<<>>)]
    ELSE orphaned(limitOrphans(m), t, scan.hashes, id)

maybeOrphan(m, t, view, id) ==
    maybeScanned(m, t, missingFrom(m, t, view, 1, <<>>), id)

-----------------------------------------------------------------------------
(* Admission. *)

\* verify(entry, view): the checks in the order of the code.  The script
\* and lock verdicts of the collaborators are given by the operators on the
\* transaction; no transaction of Tx pays less than the minimum relay fee,
\* so the priority and free-relay branches are not entered.  The chain has
\* CSV and segwit active (chain.state.hasCSV(), chain.state.hasWitness()).
\* verify up to the await of verifyInputs: lock, standardness, sigops and
\* ancestor checks
verifyPolicy(m, t, view) ==
    IF ~ok(m) THEN m
    ELSE IF ~passes(t, "verifyLocks")
    THEN throw(m, VerifyError("nonstandard", "non-BIP68-final", FALSE))
    ELSE IF requireStandard /\ ~passes(t, "hasStandardInputs")
    THEN throw(m, VerifyError("nonstandard", "bad-txns-nonstandard-inputs",
                              FALSE))
    ELSE IF requireStandard /\ ~passes(t, "hasStandardWitness")
    THEN throw(m, VerifyError("nonstandard", "bad-witness-nonstandard",
                              TRUE))
    ELSE IF ~passes(t, "sigops")
    THEN throw(m, VerifyError("nonstandard", "bad-txns-too-many-sigops",
                              FALSE))
    ELSE IF countAncestors(m, t) + 1 > maxAncestors
    THEN throw(m, VerifyError("nonstandard", "too-long-mempool-chain", FALSE))
    ELSE IF ~passes(t, "checkInputs")
    THEN throw(m, VerifyError("invalid", "bad-txns-inputs", FALSE))
    ELSE m

\* the catch around verifyInputs: the error is marked malleated when the
\* transaction has no witness, verifies without the witness and cleanstack
\* flags, and fails with the cleanstack flag back on
scriptMalleated(t) ==
    /\ ~has(t, "hasWitness")
    /\ passes(t, "verifyInputs without witness and cleanstack")
    /\ ~passes(t, "verifyInputs without witness")

\* the rest of verify: the verdict of the script verification
verifyScripts(m, t, view) ==
    IF ~ok(m) THEN m
    ELSE IF ~passes(t, "verifyInputs")
    THEN throw(m, VerifyError("nonstandard", "mandatory-script-verify-flag",
                              scriptMalleated(t)))
    ELSE m

verify(m, t, view) == verifyScripts(verifyPolicy(m, t, view), t, view)

RECURSIVE insertTX(_, _, _)

\* what the loop of handleOrphans does with the outcome of insertTX
handleResult(res, tx, id) ==
    IF res.m.err.type = "VerifyError"
    THEN emitBad(caught(IF ~has(tx, "hasWitness") /\ ~res.m.err.malleated
                        THEN [res.m EXCEPT !.rejects = @ \cup {tx}]
                        ELSE res.m),
                 tx, res.m.err, id)
    ELSE IF ~ok(res.m) THEN res.m
    ELSE IF ~res.r.null /\ Len(res.r.missing) > 0
    THEN removeOrphan(res.m, tx)
    ELSE res.m

\* the loop of handleOrphans over the resolved orphans
RECURSIVE handleResolved(_, _)
handleResolved(m, resolved) ==
    IF ~ok(m) \/ resolved = <<>> THEN m
    ELSE handleResolved(
             handleResult(insertTX(m, Head(resolved).tx, Head(resolved).id),
                          Head(resolved).tx, Head(resolved).id),
             Tail(resolved))

\* handleOrphans after resolveOrphans(parent)
handleWaiting(r) == handleResolved(r.m, r.resolved)

handleOrphans(m, parent) ==
    IF ~ok(m) THEN m ELSE handleWaiting(resolveOrphans(m, parent))

addEntry(m, t, entry) ==
    handleOrphans(
        save(emit(emit(updateAncestors(trackEntry(m, t, entry), t, "addFee"),
                       "tx", t),
                  "add entry", t),
             t),
        t)

\* insertTX runs in five stretches, each ending at an await the admission
\* can be suspended at.  Each stretch gives the mempool as it leaves it, err
\* set when it throws.

\* the context-free checks, `await verifyFinal` and the exists() test
checkKnown(m, t) ==
    IF ~passes(t, "checkSanity") THEN throw(m, VerifyError("invalid", "bad-txns", FALSE))
    ELSE IF has(t, "isCoinbase")
    THEN throw(m, VerifyError("invalid", "coinbase", FALSE))
    ELSE IF requireStandard /\ ~passes(t, "checkStandard")
    THEN throw(m, VerifyError("nonstandard", "nonstandard", FALSE))
    ELSE IF requireStandard /\ ~replaceByFee /\ has(t, "isRBF")
    THEN throw(m, VerifyError("nonstandard", "replace-by-fee", FALSE))
    ELSE IF ~verifyFinal(m.chain, t)
    THEN throw(m, VerifyError("nonstandard", "non-final", FALSE))
    ELSE IF exists(m, t)
    THEN throw(m, VerifyError("alreadyknown", "txn-already-in-mempool",
                              FALSE))
    ELSE m

\* a faulty variant of checkSpent that lets a double spend through
checkSpent_noConflict(m, t) ==
    IF ~ok(m) THEN m
    ELSE IF hasCoins(m.chain, t)
    THEN throw(m, VerifyError("alreadyknown", "txn-already-known", FALSE))
    ELSE m

\* the answer of `await chain.hasCoins` and the isDoubleSpend() test; the
\* caller goes on to getCoinView.  bad holds the transactions for which the
\* chain database fails during this call.
checkSpent(m, t) ==
    IF ~ok(m) THEN m
    ELSE IF t \in m.bad THEN throw(m, IOError)
    ELSE IF hasCoins(m.chain, t)
    THEN throw(m, VerifyError("alreadyknown", "txn-already-known", FALSE))
    ELSE IF isDoubleSpend(m, t)
    THEN throw(emit(m, "conflict", t),
               VerifyError("duplicate", "bad-txns-inputs-spent", FALSE))
    ELSE m

\* with the view: maybeOrphan; r is the missing list insertTX returns, or
\* Null when it goes on to verify
checkOrphan(m, t, view, id) == maybeOrphan(m, t, view, id)

\* if (this.limitSize(hash)) throw 'mempool full'
limited(lim) ==
    IF ok(lim.m) /\ lim.r
    THEN throw(lim.m, VerifyError("insufficientfee", "mempool full", FALSE))
    ELSE lim.m

\* after `await this.verify`: addEntry and limitSize
commitTX(m, t, entry) == limited(limitSize(addEntry(m, t, entry), t))

\* insertTX from `await this.verify` on
insertViewed(mo, t, view, entry) ==
    IF ~ok(mo.m) \/ ~mo.r.null THEN mo
    ELSE [m |-> commitTX(verify(mo.m, t, view), t, entry), r |-> Null]

\* insertTX from getCoinView on
insertChecked(m2, t, id, entry) ==
    IF ~ok(m2) THEN [m |-> m2, r |-> Null]
    ELSE insertViewed(checkOrphan(m2, t, getCoinView(m2, t), id), t,
                      getCoinView(m2, t), entry)

\* insertTX(tx, id) run without interruption: the mempool afterwards (err
\* set when it throws) and the value returned
insertTX(m, t, id) ==
    insertChecked(checkSpent(checkKnown(m, t), t), t, id, fromTX(m, t))

\* an _addTX that puts the hash of every transaction that failed with a
\* VerifyError in the reject filter
addedTX_always(res, t) ==
    IF res.m.err.type = "VerifyError"
    THEN [m |-> [res.m EXCEPT !.rejects = @ \cup {t}], r |-> res.r]
    ELSE res

\* what _addTX does with the outcome of insertTX
addedTX(res, t) ==
    IF res.m.err.type = "VerifyError"
       /\ ~has(t, "hasWitness") /\ ~res.m.err.malleated
    THEN [m |-> [res.m EXCEPT !.rejects = @ \cup {t}], r |-> res.r]
    ELSE IF ok(res.m) /\ res.m.cache.db
            /\ res.m.now - res.m.cache.lastFlush > flushInterval
    THEN [m |-> [flush(res.m) EXCEPT !.cache.lastFlush = res.m.now],
          r |-> res.r]
    ELSE res

_addTX(m, t, id) == addedTX(insertTX(m, t, id), t)

-----------------------------------------------------------------------------
(* Block events. *)

\* the loop of removeDoubleSpends over tx.inputs
RECURSIVE removeDoubleSpendsFrom(_, _, _)
removeDoubleSpendsFrom(m, t, i) ==
    IF ~ok(m) \/ i > Len(Inputs(t)) THEN m
    ELSE IF ~isSpent(m, Inputs(t)[i][1], Inputs(t)[i][2])
    THEN removeDoubleSpendsFrom(m, t, i + 1)
    ELSE removeDoubleSpendsFrom(
             emit(evictEntry(m, getSpent(m, Inputs(t)[i][1], Inputs(t)[i][2])),
                  "double spend",
                  getSpent(m, Inputs(t)[i][1], Inputs(t)[i][2])),
             t, i + 1)

\* a removeDoubleSpends that evicts and emits no 'double spend'
removeDoubleSpends_noEvent(m, t) ==
    [removeDoubleSpendsFrom(m, t, 1) EXCEPT
        !.events = SelectSeq(@, LAMBDA e : e.ev # "double spend")]

removeDoubleSpends(m, t) == removeDoubleSpendsFrom(m, t, 1)

\* if (this.waiting.has(hash)) await this.handleOrphans(tx)
resolveWaiting(m, hash) ==
    IF ok(m) /\ hash \in DOMAIN m.waiting THEN handleOrphans(m, hash) ELSE m

\* the loop of _addBlock, from txs[i] down to txs[1]; the coinbase txs[0]
\* of the code is not part of txs here
RECURSIVE addBlockFrom(_, _, _)
addBlockFrom(m, txs, i) ==
    IF ~ok(m) \/ i < 1 THEN m
    ELSE IF ~hasEntry(m, txs[i])
    THEN addBlockFrom(
             resolveWaiting(
                 removeDoubleSpends(removeOrphan(m, txs[i]), txs[i]),
                 txs[i]),
             txs, i - 1)
    ELSE addBlockFrom(emit(removeEntry(m, txs[i]), "confirmed", txs[i]),
                      txs, i - 1)

\* a faulty variant of blockAdded that leaves the tip where it was
blockAdded_keepTip(m1, hash) ==
    IF ~ok(m1) THEN m1
    ELSE flush(sync([m1 EXCEPT !.rejects = {}], hash))

\* _addBlock after its loop
blockAdded(m1, hash) ==
    IF ~ok(m1) THEN m1
    ELSE [flush(sync([m1 EXCEPT !.rejects = {}], hash)) EXCEPT !.tip = hash]

_addBlock(m, hash, txs) ==
    IF Cardinality(DOMAIN m.map) = 0 THEN [m EXCEPT !.tip = hash]
    ELSE blockAdded(addBlockFrom(m, txs, Len(txs)), hash)

\* what the loop of _removeBlock does with the outcome of insertTX
reinserted(res, hash) ==
    IF ~ok(res.m) THEN emit(caught(res.m), "error", hash)
    ELSE emit(res.m, "unconfirmed", hash)

\* insertTX(tx, -1) in the loop of _removeBlock; for the transactions in
\* bad, `await this.chain.hasCoins(tx)` throws
reinsertTX(m, t, bad) ==
    IF t \in bad /\ ok(checkKnown(m, t))
    THEN [m |-> throw(m, IOError), r |-> Null]
    ELSE insertTX(m, t, -1)

\* the loop of _removeBlock, from txs[i] up
RECURSIVE removeBlockWith(_, _, _, _)
removeBlockWith(m, txs, i, bad) ==
    IF i > Len(txs) THEN m
    ELSE IF hasEntry(m, txs[i]) THEN removeBlockWith(m, txs, i + 1, bad)
    ELSE removeBlockWith(reinserted(reinsertTX(m, txs[i], bad), txs[i]),
                         txs, i + 1, bad)

\* the loop when no chain query throws
removeBlockFrom(m, txs, i) == removeBlockWith(m, txs, i, {})

_removeBlock(m, prevBlock, txs) ==
    IF Cardinality(DOMAIN m.map) = 0 THEN [m EXCEPT !.tip = prevBlock]
    ELSE [flush(sync([removeBlockFrom(m, txs, 1) EXCEPT !.rejects = {}],
                     prevBlock))
            EXCEPT !.tip = prevBlock]

\* a _handleReorg that marks the non-final entries only
reorgMarked_final(m) ==
    {hash \in DOMAIN m.map : ~isFinal(hash, chainHeight(m.chain) + 1)}

\* the entries _handleReorg marks for removal
reorgMarked(m) ==
    {hash \in DOMAIN m.map :
       \/ ~isFinal(hash, chainHeight(m.chain) + 1)
       \/ has(hash, "sequence locks")
       \/ m.map[hash].coinbase}

RECURSIVE reorgEvict(_, _)
reorgEvict(m, marked) ==
    IF ~ok(m) \/ marked = <<>> THEN m
    ELSE IF ~hasEntry(m, Head(marked)) THEN reorgEvict(m, Tail(marked))
    ELSE reorgEvict(evictEntry(m, Head(marked)), Tail(marked))

_handleReorg(m) == reorgEvict(m, Ordered(reorgMarked(m), 1))

\* _reset up to the persistent branch
emptied(m) ==
    [m EXCEPT !.size = 0, !.waiting = EmptyMap, !.orphans = EmptyMap,
              !.map = EmptyMap, !.spents = EmptyMap, !.rejects = {}]

_reset(m) ==
    [(IF persistent THEN clear(wipe(emptied(m))) ELSE emptied(m))
        EXCEPT !.tip = chainTip(m.chain)]

\* the deltas prioritise applies: no more than takes the value to zero
clampDelta(delta, value) == IF -delta > value THEN -value ELSE delta

\* prioritise once the fee delta is known
prioritiseFee(m0, t, fee1) ==
    IF fee1 = 0 THEN m0
    ELSE updateAncestors(
             [updateAncestors(m0, t, "prePrioritise") EXCEPT
                 !.map[t].deltaFee = @ + fee1,
                 !.map[t].descFee = @ + fee1],
             t, "postPrioritise")

prioritise(m, t, pri, fee) ==
    prioritiseFee(
        [m EXCEPT !.map[t].priority = @ + clampDelta(pri, m.map[t].priority)],
        t, clampDelta(fee, m.map[t].deltaFee))

-----------------------------------------------------------------------------
(* The specification: the public operations, one at a time. *)

\* fee deltas offered to prioritise
PrioFees == {-3, 2}
Ties == {"first", "last"}

\* the mempool object, as an operation finds it
Self(ch, pending, rand, tie) ==
    [map |-> map, spents |-> spents, size |-> size, orphans |-> orphans,
     waiting |-> waiting, rejects |-> rejects, tip |-> tip,
     chain |-> ch, now |-> now, pending |-> pending,
     rand |-> rand, tie |-> tie, events |-> <<>>, err |-> NoErr,
     over |-> FALSE, cache |-> cache, bad |-> {}]

\* the mempool object, as an operation leaves it
Commit(m) ==
    /\ map' = m.map
    /\ spents' = m.spents
    /\ size' = m.size
    /\ orphans' = m.orphans
    /\ waiting' = m.waiting
    /\ rejects' = m.rejects
    /\ tip' = m.tip
    /\ cache' = m.cache

\* what the operation was and how it ended.  pre is <<K>> after an addBlock
\* that found the key set K in this.map, and after the removeBlock that
\* directly follows it; it is <<>> otherwise.
Done(op, args, m, ret, pre) ==
    /\ steps < MaxOps
    /\ steps' = steps + 1
    /\ last' = [op |-> op, args |-> args, ret |-> ret, err |-> m.err,
                events |-> m.events, pre |-> pre, over |-> m.over]

\* an operation ends with the mempool res.m and the value res.r
Finish(op, args, res, pre) ==
    /\ Commit(res.m)
    /\ Done(op, args, res.m, res.r, pre)

\* The chain the mempool is opened on: empty, or holding a block with pa.
InitChains == {<<>>, << <<"pa">> >>}

Idle == [c \in {} |-> 0]
NoLocks == [holder |-> {}, jobs |-> <<>>]

Init ==
    /\ map = EmptyMap
    /\ spents = EmptyMap
    /\ size = 0
    /\ orphans = EmptyMap
    /\ waiting = EmptyMap
    /\ rejects = {}
    /\ chain \in InitChains
    /\ tip = chainTip(chain)
    /\ now = 0
    /\ nprio = 0
    /\ steps = 0
    /\ last = [op |-> "init", args |-> <<>>, ret |-> Null, err |-> NoErr,
               events |-> <<>>, pre |-> <<>>, over |-> FALSE]
    /\ calls = Idle
    /\ locks = NoLocks
    /\ options = DefaultOptions
    /\ flagged = {}
    /\ cache = NoCache

\* addTX(tx, id) with nobody else holding or awaiting the lock
AddTX(t, id, rand, tie) ==
    /\ Finish("addTX", <<t>>, _addTX(Self(chain, {}, rand, tie), t, id), <<>>)
    /\ UNCHANGED <<options, flagged, chain, now, nprio, calls, locks>>

\* the chain connects a block and calls addBlock(block, txs)
AddBlock(txs, tie) ==
    /\ Len(chain) < MaxBlocks
    /\ ValidBlock(chain, txs)
    /\ chain' = Append(chain, txs)
    /\ LET ch == Append(chain, txs) IN
       Finish("addBlock", txs,
              [m |-> _addBlock(Self(ch, {}, 0, tie), chainTip(ch), txs),
               r |-> Null],
              <<DOMAIN map>>)
    /\ UNCHANGED <<options, flagged, now, nprio, calls, locks>>

\* the chain disconnects its tip and calls removeBlock(block, txs)
RemoveBlock(rand, tie) ==
    /\ chain # <<>>
    /\ chain' = SubSeq(chain, 1, Len(chain) - 1)
    /\ LET txs == chain[Len(chain)]
           ch == SubSeq(chain, 1, Len(chain) - 1)
       IN Finish("removeBlock", txs,
                 [m |-> _removeBlock(Self(ch, {}, rand, tie), chainTip(ch),
                                     txs),
                  r |-> Null],
                 IF last.op = "addBlock" /\ ok(last) THEN last.pre ELSE <<>>)
    /\ UNCHANGED <<options, flagged, now, nprio, calls, locks>>

HandleReorg ==
    /\ Finish("handleReorg", <<>>,
              [m |-> _handleReorg(Self(chain, {}, 0, "first")), r |-> Null],
              <<>>)
    /\ UNCHANGED <<options, flagged, chain, now, nprio, calls, locks>>

\* with a persistent cache, pre is <<K, E>>: the keys of this.map and the
\* entry keys of the database that reset found
Reset ==
    /\ Finish("reset", <<>>,
              [m |-> _reset(Self(chain, {}, 0, "first")), r |-> Null],
              IF persistent THEN <<DOMAIN map, cache.disk.e>> ELSE <<>>)
    /\ UNCHANGED <<options, flagged, chain, now, nprio, calls, locks>>

Prioritise(t, fee) ==
    /\ nprio < MaxPrio
    /\ t \in DOMAIN map
    /\ Finish("prioritise", <<t>>,
              [m |-> prioritise(Self(chain, {}, 0, "first"), t, 0, fee),
               r |-> Null],
              <<>>)
    /\ nprio' = nprio + 1
    /\ UNCHANGED <<options, flagged, chain, now, calls, locks>>

Tick ==
    /\ now < MaxTime
    /\ now' = now + 1
    /\ steps < MaxOps
    /\ steps' = steps + 1
    /\ last' = [op |-> "tick", args |-> <<>>, ret |-> Null, err |-> NoErr,
                events |-> <<>>, pre |-> <<>>, over |-> FALSE]
    /\ UNCHANGED <<options, flagged, cache, map, spents, size, orphans, waiting,
                   rejects, tip, chain, nprio, calls, locks>>

\* the random indices and heap layouts that can make a difference
Rands == IF maxOrphans > 0 /\ Cardinality(DOMAIN orphans) >= maxOrphans
         THEN 0..(maxOrphans - 1) ELSE {0}
TieChoices == IF DOMAIN map = {} THEN {"first"} ELSE Ties

Next ==
    \/ \E t \in Tx, id \in PeerIds, rand \in Rands, tie \in TieChoices :
          AddTX(t, id, rand, tie)
    \/ \E txs \in BlockSeqs, tie \in TieChoices : AddBlock(txs, tie)
    \/ \E rand \in Rands, tie \in TieChoices : RemoveBlock(rand, tie)
    \/ HandleReorg
    \/ Reset
    \/ \E t \in Tx, fee \in PrioFees : Prioritise(t, fee)
    \/ Tick

Spec == Init /\ [][Next]_vars

-----------------------------------------------------------------------------
(* Concurrent admissions.  addTX takes the lock under the hash of its       *)
(* transaction and is suspended at the awaits of insertTX; calls on         *)
(* different hashes run interleaved.  calls[c] is the c-th call: its        *)
(* transaction, the await it is suspended at (pc), the coin view it built,  *)
(* and its outcome.  locks.holder are the calls holding their lock,         *)
(* locks.jobs the calls queued for one.                                     *)

MaxCalls == 3

Call(t, pc) == [tx |-> t, pc |-> pc, view |-> {}, ret |-> Null, err |-> NoErr]

\* the hashes with a job queued on the lock
pendingOn(lk, cs) == {cs[j].tx : j \in Range(lk.jobs)}

\* The calls that take the lock without a name: block events and reset.
GlobalOps == {"reset", "addBlock", "removeBlock"}

\* two holds of the lock under the names a and b exclude each other
excludes(a, b) == a = b \/ a \in GlobalOps \/ b \in GlobalOps

\* lock(hash) or lock() by call c: taken at once unless a call that holds
\* the lock or is queued for it excludes it
lock(lk, cs, c, h) ==
    IF \E o \in lk.holder \cup Range(lk.jobs) : excludes(cs[o].tx, h)
    THEN [lk EXCEPT !.jobs = Append(@, c)]
    ELSE [lk EXCEPT !.holder = @ \cup {c}]

\* the queued jobs that get the lock when the names in held are taken, in
\* the order of the queue: a job waits for the holders and for the jobs
\* before it that exclude it
RECURSIVE nextJobs(_, _, _)
nextJobs(jobs, cs, held) ==
    IF jobs = <<>> THEN {}
    ELSE IF \E h \in held : excludes(h, cs[Head(jobs)].tx)
    THEN nextJobs(Tail(jobs), cs, held \cup {cs[Head(jobs)].tx})
    ELSE {Head(jobs)}
         \cup nextJobs(Tail(jobs), cs, held \cup {cs[Head(jobs)].tx})

\* an unlock that frees the lock and leaves the queued jobs waiting
unlock_noHandOver(lk, cs, c) ==
    [holder |-> lk.holder \ {c}, jobs |-> lk.jobs]

\* unlock() by call c: the lock goes to the jobs that no longer wait
unlock(lk, cs, c) ==
    LET nxt == nextJobs(lk.jobs, cs, {cs[o].tx : o \in lk.holder \ {c}}) IN
    [holder |-> (lk.holder \ {c}) \cup nxt,
     jobs |-> SelectSeq(lk.jobs, LAMBDA j : j \notin nxt)]

Me(rand, tie) == Self(chain, pendingOn(locks, calls), rand, tie)

\* addTX(tx) is called: lock(hash)
CallAddTX(t) ==
    LET c == Cardinality(DOMAIN calls) + 1
        lk == lock(locks, calls, c, t)
    IN /\ c <= MaxCalls
       /\ locks' = lk
       /\ calls' = [k \in DOMAIN calls \cup {c} |->
                      IF k = c
                      THEN Call(t, IF c \in lk.holder THEN "start" ELSE "lock")
                      ELSE calls[k]]
       /\ UNCHANGED <<options, flagged, cache, map, spents, size, orphans, waiting,
                      rejects, tip, chain, now, nprio, steps, last>>

\* call c is suspended at the next await
Suspend(c, pc, view) ==
    /\ calls' = [calls EXCEPT ![c].pc = pc, ![c].view = view]
    /\ UNCHANGED <<options, flagged, cache, map, spents, size, orphans, waiting,
                   rejects, tip, chain, now, nprio, steps, last, locks>>

\* insertTX of call c has thrown or returned: the rest of _addTX, and
\* unlock() in addTX
Return(c, res) ==
    LET out == addedTX(res, calls[c].tx)
        lk == unlock(locks, calls, c)
    IN /\ Commit(out.m)
       /\ locks' = lk
       /\ calls' = [k \in DOMAIN calls |->
                      IF k = c
                      THEN [calls[c] EXCEPT !.pc = "done", !.ret = out.r,
                                            !.err = out.m.err]
                      ELSE IF k \in lk.holder \ locks.holder
                      THEN [calls[k] EXCEPT !.pc = "start"]
                      ELSE calls[k]]
       /\ last' = [op |-> "addTX", args |-> <<calls[c].tx>>, ret |-> out.r,
                   err |-> out.m.err, events |-> out.m.events, pre |-> <<>>,
                   over |-> out.m.over]
       /\ UNCHANGED <<options, flagged, chain, now, nprio, steps>>

\* a stretch of call c ended with the mempool m: the call is suspended at
\* pc when the stretch did not throw
Await(c, m, pc, view) ==
    IF ok(m) THEN Suspend(c, pc, view)
    ELSE Return(c, [m |-> m, r |-> Null])

At(c, pc) == c \in DOMAIN calls /\ calls[c].pc = pc

\* from the lock to `await chain.hasCoins`
RunKnown(c) ==
    /\ At(c, "start")
    /\ calls[c].tx \in Tx
    /\ Await(c, checkKnown(Me(0, "first"), calls[c].tx), "hasCoins", {})

\* from there to the awaits of getCoinView
RunSpent(c) ==
    /\ At(c, "hasCoins")
    /\ Await(c, checkSpent(Me(0, "first"), calls[c].tx), "readCoin",
             getCoinView(Me(0, "first"), calls[c].tx))

\* maybeOrphan of call c gave res: on to verify, or out of insertTX
Orphaned(c, res) ==
    IF ok(res.m) /\ res.r.null THEN Suspend(c, "verifyLocks", calls[c].view)
    ELSE Return(c, res)

\* from there to `await chain.verifyLocks` in verify
RunOrphan(c, rand) ==
    /\ At(c, "readCoin")
    /\ Orphaned(c, checkOrphan(Me(rand, "first"), calls[c].tx,
                               calls[c].view, 7))

\* from there to `await this.verifyInputs`
RunVerify(c) ==
    /\ At(c, "verifyLocks")
    /\ Await(c, verifyPolicy(Me(0, "first"), calls[c].tx, calls[c].view),
             "verifyInputs", calls[c].view)

\* from there to the end of addTX
RunCommit(c, rand, tie) ==
    /\ At(c, "verifyInputs")
    /\ Return(c, [m |-> commitTX(verifyScripts(Me(rand, tie), calls[c].tx,
                                               calls[c].view),
                                 calls[c].tx,
                                 fromTX(Me(rand, tie), calls[c].tx)),
                  r |-> Null])

NextConc ==
    \/ \E t \in Tx : CallAddTX(t)
    \/ \E c \in 1..MaxCalls : RunKnown(c)
    \/ \E c \in 1..MaxCalls : RunSpent(c)
    \/ \E c \in 1..MaxCalls : \E rand \in Rands : RunOrphan(c, rand)
    \/ \E c \in 1..MaxCalls : RunVerify(c)
    \/ \E c \in 1..MaxCalls : \E rand \in Rands : \E tie \in TieChoices :
          RunCommit(c, rand, tie)

SpecConc == Init /\ [][NextConc]_vars

-----------------------------------------------------------------------------
(* Notions the claims are stated with. *)

Keys == DOMAIN map

\* the in-pool parents of t, and its in-pool ancestors
Parents(t) == {op[1] : op \in InputSet(t)} \cap Keys

RECURSIVE Closure(_)
Closure(S) ==
    LET N == S \cup UNION {Parents(x) : x \in S} IN
    IF N = S THEN S ELSE Closure(N)

AncestorSet(t) == Closure(Parents(t))
DescendantSet(t) == {d \in Keys : t \in AncestorSet(d)}

Emitted(name, t) ==
    \E i \in 1..Len(last.events) : 
        last.events[i].ev = name /\ last.events[i].tx = t

Succeeded == last.err.type = "none"

-----------------------------------------------------------------------------
(* C1: in every state reached by add_tx, add_block, remove_block,          *)
(* handle_reorg, prioritise and reset calls made one at a time, the spent  *)
(* map is exactly the input set of the pooled entries: every input of      *)
(* every entry maps to that entry, every key of spent is an input of the   *)
(* pooled entry it maps to, no outpoint is an input of two pooled entries, *)
(* and |spent| is the total number of inputs over by_hash.                 *)
C1_SpentBijection ==
    /\ \A e \in Keys : \A op \in InputSet(e) :
          op \in DOMAIN spents /\ spents[op] = e
    /\ \A k \in DOMAIN spents :
          spents[k] \in Keys /\ k \in InputSet(spents[k])
    /\ \A e1 \in Keys : \A e2 \in Keys \ {e1} :
          InputSet(e1) \cap InputSet(e2) = {}
    /\ Cardinality(DOMAIN spents)
         = SumOver(Keys, [e \in Keys |-> Len(Inputs(e))])

\* a block has just evicted the pooled conflict of one of its transactions,
\* and entries remain
C1_Witness ==
    /\ last.op = "addBlock"
    /\ \E t \in Tx : Emitted("double spend", t)
    /\ Keys # {}
    /\ \E e \in Keys : Len(Inputs(e)) > 1

(* C2: whenever no operation is in progress, size is the sum of            *)
(* mem_usage() over the entries in by_hash (0 for an empty pool, never     *)
(* negative).                                                              *)
C2_SizeConsistency ==
    /\ size = SumOver(Keys, [e \in Keys |-> memUsage(e)])
    /\ size >= 0
    /\ Keys = {} => size = 0

\* an admission has just evicted entries to make room
C2_Witness ==
    /\ last.op = "addTX"
    /\ \E t \in Tx : Emitted("remove entry", t)
    /\ Keys # {}

(* C3: after every operation, every entry e of by_hash has descFee equal   *)
(* to its deltaFee plus the deltaFee of all its in-pool descendants, and   *)
(* descSize equal to its size plus their sizes.                            *)
C3_FeeRollup ==
    \A e \in Keys :
       /\ map[e].descFee = map[e].deltaFee
            + SumOver(DescendantSet(e),
                      [d \in DescendantSet(e) |-> map[d].deltaFee])
       /\ map[e].descSize = map[e].size
            + SumOver(DescendantSet(e),
                      [d \in DescendantSet(e) |-> map[d].size])

(* C4: for every orphan o, o.missing is the number of keys p of waiting    *)
(* whose set contains o, each such p is the hash of a parent an input of   *)
(* o refers to, and o.missing is at least 1.                               *)
C4_OrphanIntegrity ==
    \A o \in DOMAIN orphans :
       LET ps == {p \in DOMAIN waiting : o \in Range(waiting[p])} IN
       /\ orphans[o].missing = Cardinality(ps)
       /\ ps \subseteq Range(getPrevout(o))
       /\ orphans[o].missing >= 1

(* C5: after every add_tx call returns, with success, with a list of       *)
(* missing parents or with an error, size is at most max_size.             *)
C5_Capacity == last.op = "addTX" => size <= maxSize

(* C6: limit_size(added) returns true exactly when `added` is absent from  *)
(* by_hash as it returns, so every add_tx call that reports success leaves *)
(* its transaction in by_hash.                                             *)
C6_SuccessMeansPooled ==
    (last.op = "addTX" /\ Succeeded /\ last.ret.null)
       => last.args[1] \in Keys

(* C7: at quiescence every entry of by_hash has at most max_ancestors      *)
(* distinct in-pool ancestors, also after remove_block re-inserted parents *)
(* of pooled entries.                                                      *)
C7_AncestorCap ==
    \A e \in Keys : Cardinality(AncestorSet(e)) <= maxAncestors

(* C8: add_block(B, txs) followed by remove_block(B, txs) leaves the key   *)
(* set of by_hash as it was before add_block, also when the block confirms *)
(* every transaction the pool held.  Stated for blocks whose transactions  *)
(* were all pooled before add_block.                                       *)
C8_BlockRoundTrip ==
    (/\ last.op = "removeBlock"
     /\ last.pre # <<>>
     /\ Range(last.args) \subseteq last.pre[1])
       => Keys = last.pre[1]

(* C9: with a lock per transaction hash for add_tx, two add_tx calls on    *)
(* different transactions that spend the same outpoint, interleaved at the *)
(* awaits of the admission, never both end in by_hash, and the spent entry *)
(* of the shared outpoint is the only pooled spender of it.                *)
C9_OneSpenderPerOutpoint ==
    \A c1 \in DOMAIN calls : \A c2 \in DOMAIN calls :
       LET t1 == calls[c1].tx
           t2 == calls[c2].tx
       IN (t1 # t2 /\ InputSet(t1) \cap InputSet(t2) # {}) =>
             /\ ~(t1 \in Keys /\ t2 \in Keys)
             /\ \A op \in InputSet(t1) \cap InputSet(t2) :
                   op \in DOMAIN spents =>
                      /\ spents[op] \in Keys
                      /\ \A e \in Keys : op \in InputSet(e) => e = spents[op]

\* a mempool just constructed on chain ch, and whether t, submitted to it
\* alone, is admitted
Fresh(ch) ==
    [map |-> EmptyMap, spents |-> EmptyMap, size |-> 0, orphans |-> EmptyMap,
     waiting |-> EmptyMap, rejects |-> {}, tip |-> chainTip(ch),
     chain |-> ch, now |-> 0, pending |-> {}, rand |-> 0, tie |-> "first",
     events |-> <<>>, err |-> NoErr, over |-> FALSE, cache |-> NoCache,
     bad |-> {}]

Admits(res) == ok(res.m) /\ res.r.null

Valid(t) == Admits(_addTX(Fresh(chain), t, 7))

SameTX == \A c1 \in DOMAIN calls : \A c2 \in DOMAIN calls :
             calls[c1].tx = calls[c2].tx

Returned == {c \in DOMAIN calls : calls[c].pc = "done"}
Admitted == {c \in Returned : calls[c].err.type = "none" /\ calls[c].ret.null}

(* C10: when all add_tx calls issued are for one valid transaction, the    *)
(* assertion of track_entry never fails, at most one call succeeds, every  *)
(* call that has returned without succeeding failed with VerifyError       *)
(* alreadyknown, and once all have returned exactly one has succeeded.     *)
C10_TrackedOnce ==
    (calls # Idle /\ SameTX /\ \A c \in DOMAIN calls : Valid(calls[c].tx)) =>
       /\ \A c \in DOMAIN calls : calls[c].err.type # "AssertionError"
       /\ Cardinality(Admitted) <= 1
       /\ \A c \in Returned \ Admitted :
             /\ calls[c].err.type = "VerifyError"
             /\ calls[c].err.code = "alreadyknown"
       /\ Returned = DOMAIN calls => Cardinality(Admitted) = 1

\* three calls for one valid transaction have returned; the first, which
\* held the lock while the others were queued, failed as already known, and
\* a later one was admitted
C10_Witness ==
    /\ DOMAIN calls = 1..MaxCalls
    /\ SameTX
    /\ Valid(calls[1].tx)
    /\ Returned = DOMAIN calls
    /\ calls[1].err.code = "alreadyknown"
    /\ Admitted # {} /\ Admitted # {1}
    /\ calls[1].tx \in Keys

-----------------------------------------------------------------------------
(* Notions for the claims about one add_tx call: the step of the           *)
(* specification that is an addTX call for t, and what the call found.     *)

\* this step is addTX(t) run from the lock to its return
AddTXStep(t) ==
    /\ steps' = steps + 1
    /\ last'.op = "addTX"
    /\ last'.args = <<t>>

\* the call emitted the event name for t
EmittedNext(name, t) ==
    \E i \in 1..Len(last'.events) :
        last'.events[i].ev = name /\ last'.events[i].tx = t

\* t passes the admission steps before the double-spend test: it is final,
\* not in the pool, not an orphan, and the chain holds no coins of it
PassesKnown(t) ==
    /\ verifyFinal(chain, t)
    /\ t \notin DOMAIN map
    /\ t \notin DOMAIN orphans
    /\ ~hasCoins(chain, t)

(* C11: an add_tx of a transaction that passes the earlier admission steps *)
(* and has an input whose outpoint is a key of spent fails with            *)
(* VerifyError duplicate / bad-txns-inputs-spent, emits 'conflict', and    *)
(* leaves by_hash, spent, size, orphans and waiting unchanged.             *)
C11_DoubleSpendRejected ==
    [][\A t \in Tx :
          (AddTXStep(t) /\ PassesKnown(t)
             /\ InputSet(t) \cap DOMAIN spents # {}) =>
             /\ last'.err.type = "VerifyError"
             /\ last'.err.code = "duplicate"
             /\ last'.err.reason = "bad-txns-inputs-spent"
             /\ EmittedNext("conflict", t)
             /\ map' = map
             /\ spents' = spents
             /\ size' = size
             /\ orphans' = orphans
             /\ waiting' = waiting]_vars

\* an add_tx has just been refused as a double spend of a pooled entry,
\* which is still the spender of the outpoint
C11_Witness ==
    /\ last.op = "addTX"
    /\ last.err.reason = "bad-txns-inputs-spent"
    /\ Emitted("conflict", last.args[1])
    /\ last.args[1] \notin Keys
    /\ \E op \in InputSet(last.args[1]) :
          op \in DOMAIN spents /\ spents[op] \in Keys

\* the mempool object as a call made now finds it
Here == Self(chain, {}, 0, "first")

\* the parents of t that neither the pool nor the chain resolves an input to
MissingParents(t) == {op[1] : op \in InputSet(t) \ getCoinView(Here, t)}

(* C12: an add_tx of a transaction that passes the earlier admission steps, *)
(* has an input neither the pool nor the chain resolves, and whose missing *)
(* parents are neither rejected nor pooled, is not put in by_hash or spent, *)
(* is stored in orphans with missing = the number of distinct missing      *)
(* parents, is added to waiting[p] for each of them, emits 'add orphan'    *)
(* and returns the list of those parents.                                  *)
C12_OrphanEnrolled ==
    [][\A t \in Tx :
          (/\ AddTXStep(t) /\ PassesKnown(t)
           /\ ~isDoubleSpend(Here, t)
           /\ MissingParents(t) # {}
           /\ MissingParents(t) \cap rejects = {}
           /\ MissingParents(t) \cap DOMAIN map = {}
           /\ passes(t, "getWeight")
           /\ maxOrphans > 0) =>
             /\ last'.err.type = "none"
             /\ t \notin DOMAIN map'
             /\ \A k \in DOMAIN spents' : spents'[k] # t
             /\ t \in DOMAIN orphans'
             /\ orphans'[t].missing = Cardinality(MissingParents(t))
             /\ \A p \in MissingParents(t) :
                   p \in DOMAIN waiting' /\ t \in Range(waiting'[p])
             /\ EmittedNext("add orphan", t)
             /\ ~last'.ret.null
             /\ Range(last'.ret.missing) = MissingParents(t)
             /\ Len(last'.ret.missing) = Cardinality(MissingParents(t))]_vars

\* the orphans waiting for parent p
WaitingFor(p) == IF p \in DOMAIN waiting THEN Range(waiting[p]) ELSE {}

\* the call admitted its transaction: it returned null without throwing
AdmittedNext == last'.err.type = "none" /\ last'.ret.null

(* C13: when add_tx admits P, at its return waiting has no key P, every    *)
(* orphan whose last missing parent was P is out of orphans and, when its  *)
(* replay passed validation (it was added and not reported as a bad        *)
(* orphan), is in by_hash; every orphan that waited for P and for other    *)
(* parents is still an orphan, with missing one less.                      *)
C13_OrphansResolved ==
    [][\A p \in Tx :
          (AddTXStep(p) /\ AdmittedNext) =>
             /\ p \notin DOMAIN waiting'
             /\ \A o \in WaitingFor(p) :
                   IF orphans[o].missing = 1
                   THEN /\ o \notin DOMAIN orphans'
                        /\ (EmittedNext("add entry", o)
                              /\ ~EmittedNext("bad orphan", o))
                             => o \in DOMAIN map'
                   ELSE /\ o \in DOMAIN orphans'
                        /\ orphans'[o].missing = orphans[o].missing - 1]_vars

\* A mempool just constructed on a chain of chains, with options of opts,
\* the offered transactions having the flags of one member of flags.
Opened(chains, opts, flags) ==
    /\ map = EmptyMap
    /\ spents = EmptyMap
    /\ size = 0
    /\ orphans = EmptyMap
    /\ waiting = EmptyMap
    /\ rejects = {}
    /\ chain \in chains
    /\ tip = chainTip(chain)
    /\ now = 0
    /\ nprio = 0
    /\ steps = 0
    /\ last = [op |-> "init", args |-> <<>>, ret |-> Null, err |-> NoErr,
               events |-> <<>>, pre |-> <<>>, over |-> FALSE]
    /\ calls = Idle
    /\ locks = NoLocks
    /\ options \in opts
    /\ flagged \in flags
    /\ cache = NoCache

\* The same operations on a mempool that allows three ancestors, opened on
\* a chain whose block holds b.
InitDeep ==
    Opened({<< <<"b">> >>}, {[DefaultOptions EXCEPT !.maxAncestors = 3]},
           {{}})

SpecDeep == InitDeep /\ [][Next]_vars

\* this step is addBlock(block, txs), returning without an exception
AddBlockStep(txs) ==
    /\ steps' = steps + 1
    /\ last'.op = "addBlock"
    /\ last'.args = txs
    /\ last'.err.type = "none"

\* the places of the event name for t among the events of the call
EventPlaces(name, t) ==
    {i \in 1..Len(last'.events) :
        last'.events[i].ev = name /\ last'.events[i].tx = t}

\* the pooled entries that spend an outpoint a transaction of txs spends,
\* and the pooled entries that descend from them
Conflicting(txs) ==
    {e \in Keys \ Range(txs) :
       \E x \in Range(txs) : InputSet(e) \cap InputSet(x) # {}}
Doomed(txs) ==
    {e \in Keys : e \in Conflicting(txs)
                    \/ AncestorSet(e) \cap Conflicting(txs) # {}}

C15_RejectsReset ==
    (last.op \in {"addBlock", "removeBlock"} /\ Succeeded) => rejects = {}

\* The same operations on mempools constructed with other options, and on
\* transactions with other properties.  In the first, w carries witness
\* data and the scripts of b fail in the way that marks the error
\* malleated.  In the second, no orphan is kept, standardness is not
\* required, and a signals replace-by-fee.  In the third, the pool has room
\* for one entry of the smaller kind.
WitnessFlags ==
    {<<"w", "hasWitness">>, <<"b", "verifyInputs">>,
     <<"b", "verifyInputs without witness">>}
LaxOptions ==
    [DefaultOptions EXCEPT !.maxOrphans = 0, !.requireStandard = FALSE]
RBFFlags == {<<"a", "isRBF">>}
TightOptions == [DefaultOptions EXCEPT !.maxSize = 3]

InitOptions ==
    \/ Opened({<<>>}, {DefaultOptions}, {WitnessFlags})
    \/ Opened({<<>>}, {LaxOptions}, {RBFFlags})
    \/ Opened({<<>>}, {TightOptions}, {{}})

SpecOptions == InitOptions /\ [][Next]_vars

\* The same operations where w spends the outpoints f:2 and f:1.
BlockFlags == {<<"w", "other inputs">>}

InitBlock == Opened(InitChains, {DefaultOptions}, {BlockFlags})

SpecBlock == InitBlock /\ [][Next]_vars

(* C16: in every reachable state the number of stored orphans is at most   *)
(* max_orphans (so with max_orphans = 0 no orphan is ever stored), and an  *)
(* add_tx that stores an orphan in a full table has first removed one      *)
(* orphan, together with its waiting memberships.                          *)
C16_OrphanCap ==
    /\ [](Cardinality(DOMAIN orphans) <= maxOrphans)
    /\ [][\A t \in Tx :
             (/\ AddTXStep(t)
              /\ EmittedNext("add orphan", t)
              /\ Cardinality(DOMAIN orphans) = maxOrphans) =>
                \E o \in DOMAIN orphans :
                   /\ EmittedNext("remove orphan", o)
                   /\ o \notin DOMAIN orphans'
                   /\ \A p \in DOMAIN waiting' :
                         o \notin Range(waiting'[p])]_vars

\* the orphan table was full and an add_tx has just stored a new orphan in
\* the place of one it removed
C16_Witness ==
    /\ last.op = "addTX"
    /\ Cardinality(DOMAIN orphans) = maxOrphans
    /\ maxOrphans > 0
    /\ Emitted("add orphan", last.args[1])
    /\ \E o \in Tx \ {last.args[1]} : Emitted("remove orphan", o)

(* C17: an add_tx that fails with a VerifyError leaves the hash of its      *)
(* transaction in the reject filter exactly when the hash was there before  *)
(* or the transaction carries no witness data and the error is not marked   *)
(* malleated; an add_tx that fails with another error adds nothing to the   *)
(* filter; an add_tx that admits its transaction does not add its hash.     *)
C17_RejectFilter ==
    [][\A t \in Tx :
          AddTXStep(t) =>
             /\ last'.err.type = "VerifyError" =>
                   (t \in rejects' <=>
                       \/ t \in rejects
                       \/ ~has(t, "hasWitness") /\ ~last'.err.malleated)
             /\ last'.err.type \notin {"none", "VerifyError"} =>
                   rejects' = rejects
             /\ AdmittedNext => (t \in rejects' => t \in rejects)]_vars

\* an add_tx has failed with a malleated VerifyError and its transaction is
\* not in the filter, which holds the hash of a transaction rejected before
C17_Witness ==
    /\ last.op = "addTX"
    /\ last.err.type = "VerifyError"
    /\ last.err.malleated
    /\ ~has(last.args[1], "hasWitness")
    /\ last.args[1] \notin rejects
    /\ rejects # {}

(* C18: when replace_by_fee is disabled, whatever require_standard is, no   *)
(* entry of by_hash signals replace-by-fee: add_tx rejects every            *)
(* transaction that has an RBF-flagged input.                               *)
C18_NoRBFEntry ==
    ~replaceByFee => \A e \in Keys : ~has(e, "isRBF")

(* C19: an add_tx that fails with a VerifyError leaves by_hash (with the    *)
(* descFee and descSize of every entry), spent, size, orphans and waiting   *)
(* exactly as they were before the call: every mutation of an admission     *)
(* happens only after all of its fallible checks have passed.               *)
C19_ValidateThenCommit ==
    [][\A t \in Tx :
          (AddTXStep(t) /\ last'.err.type = "VerifyError") =>
             /\ map' = map
             /\ spents' = spents
             /\ size' = size
             /\ orphans' = orphans
             /\ waiting' = waiting]_vars

(* C20: in every reachable state, and in every state inside an admission   *)
(* between track_entry and the limit_size that follows it (the orphan       *)
(* cascade included), size exceeds max_size by at most the memory usage of  *)
(* a single entry of the pool.                                              *)
C20_MemoryBound ==
    /\ ~last.over
    /\ size > maxSize => size <= maxSize + largest(Keys)

-----------------------------------------------------------------------------
\* The same operations on transactions that a reorganisation can invalidate:
\* pa has version 2 and an input whose sequence does not carry the disable
\* flag (its locks are satisfied when it is admitted), and w spends the
\* output of a coinbase.
ReorgFlags == {<<"pa", "sequence locks">>, <<"w", "coinbase input">>}
InitReorg == Opened(InitChains, {DefaultOptions}, {ReorgFlags})
SpecReorg == InitReorg /\ [][Next]_vars

\* this step is a handleReorg call
HandleReorgStep ==
    /\ steps' = steps + 1
    /\ last'.op = "handleReorg"

\* the entries handle_reorg has to remove: not final at height + 1, with
\* sequence locks, or spending a coinbase
Marked ==
    {e \in Keys :
       \/ ~isFinal(e, chainHeight(chain) + 1)
       \/ has(e, "sequence locks")
       \/ map[e].coinbase}

(* C21: after handle_reorg returns, by_hash holds no entry that is         *)
(* non-final at chain.height + 1, has sequence locks or carries the        *)
(* coinbase flag, and no descendant of such an entry; every other entry is *)
(* still in by_hash.                                                        *)
C21_ReorgSanitized ==
    [][HandleReorgStep =>
          /\ last'.err.type = "none"
          /\ DOMAIN map' =
                Keys \ (Marked \cup UNION {DescendantSet(e) : e \in Marked})]_vars

\* handle_reorg has evicted at least two entries, one with its descendant,
\* and left another in the pool
C21_Witness ==
    /\ last.op = "handleReorg"
    /\ Emitted("remove entry", "pa")
    /\ Emitted("remove entry", "a")
    /\ Keys # {}

-----------------------------------------------------------------------------
(* The persistent cache.  The mempool is constructed over a database left  *)
(* by an earlier run and opened before anything else is called.            *)

\* the two loops of _open over the entries read from the database
RECURSIVE loadFrom(_, _)
loadFrom(m, entries) ==
    IF entries = <<>> THEN m
    ELSE loadFrom(trackEntry(m, Head(entries), fromTX(m, Head(entries))),
                  Tail(entries))

RECURSIVE linkFrom(_, _)
linkFrom(m, entries) ==
    IF entries = <<>> THEN m
    ELSE linkFrom(updateAncestors(m, Head(entries), "addFee"), Tail(entries))

\* _open after cache.open()
loaded(m) ==
    [(IF persistent
      THEN linkFrom(loadFrom(m, Ordered(m.cache.disk.e, 1)),
                    Ordered(m.cache.disk.e, 1))
      ELSE m)
        EXCEPT !.tip = chainTip(m.chain)]

\* cache.open(): verify(), unless this.db is null
open(m) ==
    IF ~m.cache.db THEN m
    ELSE [m EXCEPT !.cache.disk = verified(@, chainTip(m.chain))]

_open(m) == loaded(open(m))

\* The databases an earlier run can have left: none, one written at the
\* tip of the chain, one written by an older version, and one written at
\* another tip.
OtherTip == [height |-> 1, txs |-> <<"w">>]
Disks ==
    {NoDisk,
     [V |-> VERSION, R |-> GENESIS, F |-> FALSE, e |-> {"b", "pa"}],
     [V |-> 1, R |-> GENESIS, F |-> TRUE, e |-> {"b"}],
     [V |-> VERSION, R |-> OtherTip, F |-> TRUE, e |-> {"b"}]}

PersistentOptions == [DefaultOptions EXCEPT !.persistent = TRUE]

InitCache ==
    /\ map = EmptyMap
    /\ spents = EmptyMap
    /\ size = 0
    /\ orphans = EmptyMap
    /\ waiting = EmptyMap
    /\ rejects = {}
    /\ chain = <<>>
    /\ tip = GENESIS
    /\ now = 0
    /\ nprio = 0
    /\ steps = 0
    /\ last = [op |-> "init", args |-> <<>>, ret |-> Null, err |-> NoErr,
               events |-> <<>>, pre |-> <<>>, over |-> FALSE]
    /\ calls = Idle
    /\ locks = NoLocks
    /\ options = PersistentOptions
    /\ flagged = {}
    /\ cache \in {[db |-> TRUE, disk |-> d, batch |-> <<>>, lastFlush |-> 0] :
                    d \in Disks}

\* open(); pre is <<d>>, the database it found
Open ==
    /\ last.op = "init"
    /\ Finish("open", <<>>,
              [m |-> _open(Self(chain, {}, 0, "first")), r |-> Null],
              <<cache.disk>>)
    /\ UNCHANGED <<options, flagged, chain, now, nprio, calls, locks>>

\* open() has returned
IsOpen == last.op # "init"

NextCache ==
    \/ Open
    \/ \E t \in Tx, id \in PeerIds, rand \in Rands, tie \in TieChoices :
          IsOpen /\ AddTX(t, id, rand, tie)
    \/ \E txs \in BlockSeqs, tie \in TieChoices : IsOpen /\ AddBlock(txs, tie)
    \/ \E rand \in Rands, tie \in TieChoices : IsOpen /\ RemoveBlock(rand, tie)
    \/ IsOpen /\ HandleReorg
    \/ IsOpen /\ Reset
    \/ \E t \in Tx, fee \in PrioFees : IsOpen /\ Prioritise(t, fee)
    \/ IsOpen /\ Tick

SpecCache == InitCache /\ [][NextCache]_vars

\* this step is the open() call, and the database it found
OpenStep ==
    /\ steps' = steps + 1
    /\ last'.op = "open"

(* C23: after a persistent cache is opened, the stored version is 2 and    *)
(* the stored tip is the tip of the chain; when the stored version was     *)
(* present and not 2, or the stored tip was not the tip of the chain,      *)
(* every entry key and the fee blob are gone and the mempool has loaded no *)
(* entry; an empty store gets the version and the tip and is not wiped;    *)
(* a store of this version and this tip is left as it is and its entries   *)
(* are loaded.                                                             *)
C23_CacheVerified ==
    [][OpenStep =>
          /\ cache'.disk.V = VERSION
          /\ cache'.disk.R = chainTip(chain)
          /\ (cache.disk.V \notin {-1, VERSION}
                \/ (cache.disk.V # -1 /\ cache.disk.R # chainTip(chain))) =>
                /\ cache'.disk.e = {}
                /\ ~cache'.disk.F
                /\ map' = EmptyMap
          /\ cache.disk.V = -1 =>
                cache'.disk = [cache.disk EXCEPT !.V = VERSION,
                                                 !.R = chainTip(chain)]
          /\ (cache.disk.V = VERSION /\ cache.disk.R = chainTip(chain)) =>
                /\ cache'.disk = cache.disk
                /\ DOMAIN map' = cache.disk.e]_vars

\* open() found a database of this version written at another tip, with
\* entries and fee data, and has wiped it
C23_Witness ==
    /\ last.op = "open"
    /\ last.pre[1].V = VERSION
    /\ last.pre[1].R # chainTip(chain)
    /\ last.pre[1].e # {}
    /\ last.pre[1].F
    /\ cache.disk = [V |-> VERSION, R |-> chainTip(chain), F |-> FALSE,
                     e |-> {}]
    /\ map = EmptyMap

-----------------------------------------------------------------------------
(* The comparator on its own: cmpRate applied to every pair of entries     *)
(* with small sizes, fees and times.  The descendant size and fee of an    *)
(* entry are its own plus those of its descendants.                        *)

MaxEntrySize == 2        \* size of an entry
MaxEntryFee == 2         \* deltaFee of an entry
MaxDesc == 2        \* size, and fee, of the descendants of an entry

\* the size and the fee of the descendants of an entry: none, or some
Descendants ==
    {<<0, 0>>} \cup {<<ds, df>> : ds \in 1..MaxDesc, df \in 0..MaxDesc}

RateEntries ==
    {[size |-> sz, deltaFee |-> f, descSize |-> sz + d[1],
      descFee |-> f + d[2], time |-> tm] :
        sz \in 1..MaxEntrySize, f \in 0..MaxEntryFee, d \in Descendants,
        tm \in 0..MaxTime}

InitRate == Opened({<<>>}, {DefaultOptions}, {{}})

\* cmpRate(a, b) is called
Compare(a, b) ==
    /\ last.op = "init"
    /\ last' = [op |-> "cmpRate", args |-> <<a, b>>, ret |-> cmpRate(a, b),
                err |-> NoErr, events |-> <<>>, pre |-> <<>>, over |-> FALSE]
    /\ steps' = steps + 1
    /\ UNCHANGED <<options, flagged, cache, map, spents, size, orphans,
                   waiting, rejects, tip, chain, now, nprio, calls, locks>>

NextRate == \E a \in RateEntries, b \in RateEntries : Compare(a, b)

SpecRate == InitRate /\ [][NextRate]_vars

\* the direct rate of a is below its descendant-package rate
DirectIsLower(a) == a.deltaFee * a.descSize < a.descFee * a.size

\* the lesser, and the greater, of the two rates of a, as <<fee, size>>
LesserRate(a) ==
    IF DirectIsLower(a) THEN <<a.deltaFee, a.size>>
    ELSE <<a.descFee, a.descSize>>
GreaterRate(a) ==
    IF DirectIsLower(a) THEN <<a.descFee, a.descSize>>
    ELSE <<a.deltaFee, a.size>>

\* fee / size of x is below, or equal to, that of y
Below(x, y) == x[1] * y[2] < y[1] * x[2]
Same(x, y) == x[1] * y[2] = y[1] * x[2]

(* C24 as stated: cmp_rate(a, b) is negative exactly when the lesser of    *)
(* the direct rate and the descendant-package rate of a is below that of   *)
(* b, and on equal rates exactly when a is the older entry.                *)
C24_LesserRate ==
    last.op = "cmpRate" =>
        (last.ret < 0 <=>
            \/ Below(LesserRate(last.args[1]), LesserRate(last.args[2]))
            \/ /\ Same(LesserRate(last.args[1]), LesserRate(last.args[2]))
               /\ last.args[1].time < last.args[2].time)

(* C24 amended: cmp_rate(a, b) is negative exactly when the greater of the *)
(* direct rate and the descendant-package rate of a is below that of b,    *)
(* and on equal rates exactly when a is the older entry.                   *)
C24_GreaterRate ==
    last.op = "cmpRate" =>
        (last.ret < 0 <=>
            \/ Below(GreaterRate(last.args[1]), GreaterRate(last.args[2]))
            \/ /\ Same(GreaterRate(last.args[1]), GreaterRate(last.args[2]))
               /\ last.args[1].time < last.args[2].time)

\* cmpRate has put a first although the lesser of its rates is above that
\* of b: the descendant-package rate of a is below its direct rate
C24_Witness ==
    /\ last.op = "cmpRate"
    /\ last.ret < 0
    /\ Below(LesserRate(last.args[2]), LesserRate(last.args[1]))
    /\ ~DirectIsLower(last.args[2])
    /\ last.args[2].descSize > last.args[2].size

-----------------------------------------------------------------------------
(* limitSize, seen from the state in which insertTX calls it. *)

\* the mempool in which insertTX(t) calls limitSize(t): t is verified and
\* addEntry has run; err is set when insertTX does not get that far
TrackedFrom(mo, t, view, entry) ==
    IF ok(mo.m) /\ ~mo.r.null
    THEN throw(mo.m, AssertionError("not tracked"))
    ELSE addEntry(verify(mo.m, t, view), t, entry)
TrackedIn(m2, t, entry) ==
    TrackedFrom(checkOrphan(m2, t, getCoinView(m2, t), 7), t,
                getCoinView(m2, t), entry)
Tracked(t, rand, tie) ==
    TrackedIn(checkSpent(checkKnown(Self(chain, {}, rand, tie), t), t), t,
              fromTX(Self(chain, {}, rand, tie), t))

\* the entries of S and their descendants in the mempool m
RECURSIVE PackageOf(_, _)
PackageOf(m, S) ==
    IF {e \in DOMAIN m.map : \E op \in InputSet(e) : op[1] \in S} \subseteq S
    THEN S
    ELSE PackageOf(m, S \cup {e \in DOMAIN m.map :
                                \E op \in InputSet(e) : op[1] \in S})

\* the entries without in-pool parents that limitSize puts in its heap, and
\* those it evicts as too old
HeapEntries(m) ==
    {e \in DOMAIN m.map :
       ~hasDepends(m, e) /\ m.now < m.map[e].time + expiryTime}
ExpiredEntries(m) ==
    {e \in DOMAIN m.map :
       ~hasDepends(m, e) /\ ~(m.now < m.map[e].time + expiryTime)}

\* the hashes left by the expiry pass, and the memory a set of hashes takes
AfterExpiry(m) == DOMAIN m.map \ PackageOf(m, ExpiredEntries(m))
Usage(S) == SumOver(S, [e \in S |-> memUsage(e)])

\* R is what a rate pass in nondecreasing cmpRate order evicts from the heap
\* of m before it stops at the threshold: no entry of the heap outside R
\* precedes one of R, and without the last one of R the mempool is still
\* over the threshold
RatePass(m, R) ==
    /\ R # {}
    /\ \A x \in R : \A y \in HeapEntries(m) \ R :
          cmpRate(m.map[x], m.map[y]) <= 0
    /\ \E x \in R :
          /\ \A z \in R : cmpRate(m.map[z], m.map[x]) <= 0
          /\ ~underThreshold(Usage(AfterExpiry(m) \ PackageOf(m, R \ {x})))

\* r is m after a limitSize as C25 describes it
LimitedTo(m, r) ==
    /\ underThreshold(r.size)
    /\ IF underThreshold(Usage(AfterExpiry(m)))
       THEN DOMAIN r.map = AfterExpiry(m)
       ELSE \E R \in SUBSET HeapEntries(m) :
               /\ RatePass(m, R)
               /\ DOMAIN r.map = AfterExpiry(m) \ PackageOf(m, R)

(* C25: whenever limitSize is called with size > maxSize, after the expiry *)
(* pass it evicts heap entries in nondecreasing cmpRate order, each with   *)
(* its in-pool spenders, stops at the first point where size is at most    *)
(* maxSize - maxSize / 10, and returns with size at most that; no entry is *)
(* evicted by the rate pass while a heap entry that cmpRate puts before it *)
(* survives.                                                               *)
C25_LimitSize ==
    \A t \in Tx, rand \in Rands, tie \in TieChoices :
        (ok(Tracked(t, rand, tie)) /\ Tracked(t, rand, tie).size > maxSize)
        => /\ ok(limitSize(Tracked(t, rand, tie), t).m)
           /\ LimitedTo(Tracked(t, rand, tie),
                        limitSize(Tracked(t, rand, tie), t).m)

\* limitSize is called over maxSize, its expiry pass leaves the mempool over
\* the threshold, and its rate pass evicts two entries of the heap and
\* leaves a third one
C25_Witness ==
    \E t \in Tx, rand \in Rands, tie \in TieChoices :
        /\ ok(Tracked(t, rand, tie))
        /\ Tracked(t, rand, tie).size > maxSize
        /\ ~underThreshold(Usage(AfterExpiry(Tracked(t, rand, tie))))
        /\ Cardinality(HeapEntries(Tracked(t, rand, tie))
                       \ DOMAIN limitSize(Tracked(t, rand, tie), t).m.map)
           >= 2
        /\ HeapEntries(Tracked(t, rand, tie))
           \cap DOMAIN limitSize(Tracked(t, rand, tie), t).m.map # {}

-----------------------------------------------------------------------------
(* Calls of every kind, interleaved.  addTX takes the lock under the hash  *)
(* of its transaction, addBlock, removeBlock and reset take it without a   *)
(* name.  The chain connects or disconnects its block before it calls the  *)
(* mempool; calls[c].view of a block call holds the hash the tip is to be  *)
(* set to and the transactions of the block.  A call of reset is suspended *)
(* at `await this.cache.wipe()`, a block call at `await                    *)
(* this.cache.flush()`.  At any await the collaborator may throw.  The     *)
(* cache is persistent and was opened on an empty database.                *)

\* the transactions offered, and the suspension points
LiveTx == {"pa", "a", "w"}
Awaits == {"hasCoins", "readCoin", "verifyLocks", "verifyInputs", "wipe",
           "flush"}

\* The databases the mempool was opened on: none, and one an earlier run
\* wrote at the tip of the chain.
LiveDisks ==
    {NoDisk, [V |-> VERSION, R |-> GENESIS, F |-> FALSE, e |-> {"b"}]}

\* the mempool after open() on the database d
OpenedOn(d) ==
    _open([Fresh(<<>>) EXCEPT
              !.cache = [db |-> TRUE, disk |-> d, batch |-> <<>>,
                         lastFlush |-> 0]])

InitLive ==
    /\ options = PersistentOptions
    /\ flagged = {}
    /\ chain = <<>>
    /\ now = 0
    /\ nprio = 0
    /\ steps = 0
    /\ last = [op |-> "init", args |-> <<>>, ret |-> Null, err |-> NoErr,
               events |-> <<>>, pre |-> <<>>, over |-> FALSE]
    /\ calls = Idle
    /\ locks = NoLocks
    /\ \E d \in LiveDisks :
          /\ map = OpenedOn(d).map
          /\ spents = OpenedOn(d).spents
          /\ size = OpenedOn(d).size
          /\ orphans = OpenedOn(d).orphans
          /\ waiting = OpenedOn(d).waiting
          /\ rejects = OpenedOn(d).rejects
          /\ tip = OpenedOn(d).tip
          /\ cache = OpenedOn(d).cache

\* op is called without a name for the lock: lock()
Called(op, blk) ==
    LET c == Cardinality(DOMAIN calls) + 1
        lk == lock(locks, calls, c, op)
    IN /\ c <= MaxCalls
       /\ locks' = lk
       /\ calls' = [k \in DOMAIN calls \cup {c} |->
                      IF k = c
                      THEN [Call(op, IF c \in lk.holder THEN "start"
                                     ELSE "lock") EXCEPT !.view = blk]
                      ELSE calls[k]]
       /\ UNCHANGED <<options, flagged, cache, map, spents, size, orphans,
                      waiting, rejects, tip, now, nprio, steps, last>>

CallReset == Called("reset", {}) /\ UNCHANGED chain

CallAddBlock(txs) ==
    /\ Len(chain) < MaxBlocks
    /\ ValidBlock(chain, txs)
    /\ chain' = Append(chain, txs)
    /\ Called("addBlock",
              [hash |-> chainTip(Append(chain, txs)), txs |-> txs])

\* bad: the transactions of the block for which the chain query of the
\* reinsertion is going to throw
CallRemoveBlock(bad) ==
    /\ chain # <<>>
    /\ bad \subseteq {chain[Len(chain)][1]}
    /\ chain' = SubSeq(chain, 1, Len(chain) - 1)
    /\ Called("removeBlock",
              [hash |-> prevTip(chain), txs |-> chain[Len(chain)],
               bad |-> bad])

\* the call c of reset or of a block event is over with the mempool m:
\* unlock() in the finally clause; pre is <<E>>, the entry keys of the
\* database before the last stretch of the call
Released(c, m) ==
    LET lk == unlock(locks, calls, c) IN
    /\ Commit(m)
    /\ locks' = lk
    /\ calls' = [k \in DOMAIN calls |->
                   IF k = c
                   THEN [calls[c] EXCEPT !.pc = "done", !.err = m.err]
                   ELSE IF k \in lk.holder \ locks.holder
                   THEN [calls[k] EXCEPT !.pc = "start"]
                   ELSE calls[k]]
    /\ last' = [op |-> calls[c].tx, args |-> <<>>, ret |-> Null,
                err |-> m.err, events |-> m.events, pre |-> <<cache.disk.e>>,
                over |-> m.over]
    /\ UNCHANGED <<options, flagged, chain, now, nprio, steps>>

\* a stretch of such a call ended with the mempool m: the call is
\* suspended at pc when the stretch did not throw
Held(c, m, pc) ==
    IF ok(m)
    THEN /\ Commit(m)
         /\ calls' = [calls EXCEPT ![c].pc = pc]
         /\ last' = [op |-> calls[c].tx, args |-> <<>>, ret |-> Null,
                     err |-> m.err, events |-> m.events,
                     pre |-> <<cache.disk.e>>, over |-> m.over]
         /\ UNCHANGED <<options, flagged, chain, now, nprio, steps, locks>>
    ELSE Released(c, m)

\* _addBlock and _removeBlock after their loop, up to cache.flush()
synced(m1, hash) ==
    IF ~ok(m1) THEN m1 ELSE sync([m1 EXCEPT !.rejects = {}], hash)

\* _reset up to `await this.cache.wipe()`
RunReset(c) ==
    /\ At(c, "start")
    /\ calls[c].tx = "reset"
    /\ Held(c, emptied(Me(0, "first")), "wipe")

\* from there to the end of reset
EndReset(c) ==
    /\ At(c, "wipe")
    /\ Released(c, [clear(wipe(Me(0, "first")))
                      EXCEPT !.tip = chainTip(chain)])

\* _addBlock up to `await this.cache.flush()`, or to its early return
RunAddBlock(c, tie) ==
    /\ At(c, "start")
    /\ calls[c].tx = "addBlock"
    /\ IF DOMAIN map = {}
       THEN Released(c, [Me(0, tie) EXCEPT !.tip = calls[c].view.hash])
       ELSE Held(c, synced(addBlockFrom(Me(0, tie), calls[c].view.txs,
                                        Len(calls[c].view.txs)),
                           calls[c].view.hash),
                 "flush")

\* _removeBlock up to `await this.cache.flush()`, or to its early return
RunRemoveBlock(c, rand, tie) ==
    /\ At(c, "start")
    /\ calls[c].tx = "removeBlock"
    /\ IF DOMAIN map = {}
       THEN Released(c, [Me(rand, tie) EXCEPT !.tip = calls[c].view.hash])
       ELSE Held(c, synced(removeBlockWith(Me(rand, tie),
                                           calls[c].view.txs, 1,
                                           calls[c].view.bad),
                           calls[c].view.hash),
                 "flush")

\* from there to the end of addBlock or removeBlock
EndBlock(c) ==
    /\ At(c, "flush")
    /\ Released(c, [flush(Me(0, "first")) EXCEPT !.tip = calls[c].view.hash])

\* the await call c is suspended at throws
Fail(c) ==
    /\ c \in DOMAIN calls
    /\ calls[c].pc \in Awaits
    /\ IF calls[c].tx \in Tx
       THEN Return(c, [m |-> throw(Me(0, "first"), IOError), r |-> Null])
       ELSE Released(c, throw(Me(0, "first"), IOError))

\* the await call c is suspended at returns, or call c runs from the lock
Progress(c) ==
    \/ RunKnown(c)
    \/ RunSpent(c)
    \/ \E rand \in Rands : RunOrphan(c, rand)
    \/ RunVerify(c)
    \/ \E rand \in Rands : \E tie \in TieChoices : RunCommit(c, rand, tie)
    \/ RunReset(c)
    \/ EndReset(c)
    \/ \E tie \in TieChoices : RunAddBlock(c, tie)
    \/ \E rand \in Rands : \E tie \in TieChoices : RunRemoveBlock(c, rand, tie)
    \/ EndBlock(c)

NextLive ==
    \/ \E t \in LiveTx : CallAddTX(t)
    \/ CallReset
    \/ \E txs \in BlockSeqs : CallAddBlock(txs)
    \/ \E bad \in SUBSET Tx : CallRemoveBlock(bad)
    \/ \E c \in 1..MaxCalls : RunKnown(c)
    \/ \E c \in 1..MaxCalls : RunSpent(c)
    \/ \E c \in 1..MaxCalls : \E rand \in Rands : RunOrphan(c, rand)
    \/ \E c \in 1..MaxCalls : RunVerify(c)
    \/ \E c \in 1..MaxCalls : \E rand \in Rands : \E tie \in TieChoices :
          RunCommit(c, rand, tie)
    \/ \E c \in 1..MaxCalls : RunReset(c)
    \/ \E c \in 1..MaxCalls : EndReset(c)
    \/ \E c \in 1..MaxCalls : \E tie \in TieChoices : RunAddBlock(c, tie)
    \/ \E c \in 1..MaxCalls : \E rand \in Rands : \E tie \in TieChoices :
          RunRemoveBlock(c, rand, tie)
    \/ \E c \in 1..MaxCalls : EndBlock(c)
    \/ \E c \in 1..MaxCalls : Fail(c)

\* the call c has the lock and is not over: a step of c is possible
Running(c) == c \in DOMAIN calls /\ calls[c].pc \notin {"lock", "done"}

\* a step of the call c
Moves(c) == c \in DOMAIN calls /\ calls'[c].pc # calls[c].pc

\* Weak fairness of the steps of call c (Progress(c) or Fail(c), which are
\* possible exactly when Running(c)), written out as
\* []<>~ENABLED <<A>>_vars \/ []<><<A>>_vars: the await c is suspended at
\* eventually returns or throws, and a call that has the lock runs.
Fair(c) == []<>~Running(c) \/ []<><<Moves(c)>>_vars

SpecLive ==
    /\ InitLive
    /\ [][NextLive]_vars
    /\ \A c \in 1..MaxCalls : Fair(c)

\* the call c of reset returns normally in this step
ResetReturns(c) ==
    /\ c \in DOMAIN calls
    /\ calls[c].tx = "reset"
    /\ calls[c].pc # "done"
    /\ calls'[c].pc = "done"
    /\ calls'[c].err = NoErr

\* the state and the lock when the call c of reset has returned
ResetDone(c) ==
    /\ map' = EmptyMap
    /\ spents' = EmptyMap
    /\ orphans' = EmptyMap
    /\ waiting' = EmptyMap
    /\ rejects' = {}
    /\ size' = 0
    /\ tip' = chainTip(chain')
    /\ cache'.disk.e = {}
    /\ c \in locks.holder
    /\ c \notin locks'.holder \cup Range(locks'.jobs)

Quiet == locks = NoLocks /\ \A c \in DOMAIN calls : At(c, "done")

\* the call c leaves the queue of the lock in this step
Dequeued(c) == At(c, "lock") /\ calls'[c].pc # "lock"

(* C26: every addTX, addBlock, removeBlock and reset call has released the *)
(* lock when it is over, whether it returned normally, failed with a       *)
(* VerifyError or failed with an error of a collaborator; a queued call    *)
(* leaves the queue only by getting the lock; and, every suspension point  *)
(* eventually returning, again and again every call made so far is over    *)
(* and the lock is free: no call holds the lock for ever, every queued     *)
(* call eventually has it, and every call runs to its end.                 *)
C26_LockReleased ==
    /\ [](\A c \in DOMAIN calls :
             calls[c].pc = "done"
             => c \notin locks.holder \cup Range(locks.jobs))
    /\ [][\A c \in 1..MaxCalls :
             Dequeued(c) => calls'[c].pc = "start" /\ c \in locks'.holder]_vars
    /\ []<>Quiet

\* three calls are over and the lock is free: one returned normally, one
\* failed with a VerifyError, one with an error of a collaborator, and one
\* of them was a block event or a reset
C26_Witness ==
    /\ locks = NoLocks
    /\ \A c \in 1..MaxCalls : At(c, "done")
    /\ {calls[c].err.type : c \in DOMAIN calls}
       = {"none", "VerifyError", "Error"}
    /\ \E c \in DOMAIN calls : calls[c].tx \in GlobalOps

(* C27: after addBlock(block, txs) has returned, whatever the state of the  *)
(* mempool the block arrived at, no transaction of the block is in orphans *)
(* and no key of waiting is the hash of a transaction of the block.        *)
C27_OrphansReconciled ==
    [][\A txs \in BlockSeqs :
          AddBlockStep(txs)
          => \A t \in Range(txs) :
                t \notin DOMAIN orphans' /\ t \notin DOMAIN waiting']_vars

\* the pooled entries that spend an outpoint that a transaction of txs
\* which is not pooled spends too, and they with their pooled descendants
DoubleSpenders(txs) ==
    {e \in Keys \ Range(txs) :
       \E x \in Range(txs) \ Keys : InputSet(e) \cap InputSet(x) # {}}
DoubleSpent(txs) ==
    {e \in Keys : e \in DoubleSpenders(txs)
                    \/ AncestorSet(e) \cap DoubleSpenders(txs) # {}}

\* an orphan is promoted during the call: handleOrphans admits it
PromotedNext ==
    \E i \in 1..Len(last'.events) : last'.events[i].ev = "add entry"

\* the entries of DoubleSpenders that descend from no other one of them
FirstDoubleSpenders(txs) ==
    {e \in DoubleSpenders(txs) :
       AncestorSet(e) \cap DoubleSpenders(txs) = {}}

\* what add_block leaves of the entries it has no reason to remove
OthersKept(txs) ==
    \A e \in Keys \ (Range(txs) \cup DoubleSpent(txs)) :
       /\ e \in DOMAIN map'
       /\ \A op \in InputSet(e) :
             op \in DOMAIN spents' /\ spents'[op] = spents[op]

(* C28 as stated: add_block removes from by_hash only the transactions of  *)
(* the block, the pooled entries that spend an outpoint also spent by a    *)
(* transaction of the block that was not pooled, for each of which it      *)
(* emits 'double spend', and the pooled descendants of these; afterwards   *)
(* no pooled entry spends an outpoint a transaction of the block spends;   *)
(* and when no orphan is promoted during the call every other entry is     *)
(* still pooled and its outpoints are mapped in spent as before.           *)
C28_BlockFrame ==
    [][\A txs \in BlockSeqs :
          AddBlockStep(txs) =>
             /\ Keys \ DOMAIN map' \subseteq Range(txs) \cup DoubleSpent(txs)
             /\ \A e \in DoubleSpenders(txs) :
                   EventPlaces("double spend", e) # {}
             /\ \A e \in DOMAIN map' : \A x \in Range(txs) :
                   InputSet(e) \cap InputSet(x) = {}
             /\ ~PromotedNext => OthersKept(txs)]_vars

(* C28 amended: after add_block returns no pooled entry spends an outpoint *)
(* a transaction of the block spends; and when no orphan is promoted       *)
(* during the call, it removes from by_hash only the transactions of the   *)
(* block, the pooled entries that spend an outpoint also spent by a        *)
(* transaction of the block that was not pooled, and the pooled            *)
(* descendants of these, it emits 'double spend' for each such entry that  *)
(* descends from no other such entry, and every other entry is still       *)
(* pooled with its outpoints mapped in spent as before.                    *)
C28_BlockFrameUnpromoted ==
    [][\A txs \in BlockSeqs :
          AddBlockStep(txs) =>
             /\ \A e \in DOMAIN map' : \A x \in Range(txs) :
                   InputSet(e) \cap InputSet(x) = {}
             /\ ~PromotedNext =>
                   /\ Keys \ DOMAIN map'
                        \subseteq Range(txs) \cup DoubleSpent(txs)
                   /\ \A e \in FirstDoubleSpenders(txs) :
                         EventPlaces("double spend", e) # {}
                   /\ OthersKept(txs)]_vars

\* a block has evicted a double spender with its descendant, itself a
\* double spender, and has left another entry pooled
C28_Witness ==
    /\ last.op = "addBlock"
    /\ Succeeded
    /\ Emitted("double spend", "b")
    /\ Emitted("remove entry", "c")
    /\ ~Emitted("double spend", "c")
    /\ "w" \in Range(last.args)
    /\ Inputs("w")[2] \in InputSet("c")
    /\ Keys # {}

\* the call c of removeBlock runs its loop in this step, and the first
\* transaction of the block is not pooled: it is reinserted first
RemoveBlockRuns(c) ==
    /\ At(c, "start")
    /\ calls[c].tx = "removeBlock"
    /\ calls'[c].pc # "start"
    /\ Keys # {}
    /\ calls[c].view.txs[1] \notin Keys

\* the outcome of that reinsertion
FirstReinsertion(c, rand, tie) ==
    reinsertTX(Me(rand, tie), calls[c].view.txs[1], calls[c].view.bad)

\* the loop of the call c went on to the second transaction of the block
WentOn(c) ==
    Len(calls[c].view.txs) > 1 =>
       \/ calls[c].view.txs[2] \in DOMAIN map'
       \/ EmittedNext("error", calls[c].view.txs[2])
       \/ EmittedNext("unconfirmed", calls[c].view.txs[2])

(* C29: in remove_block, when the reinsertion of a transaction of the      *)
(* block fails with a VerifyError, an 'error' event is emitted and the     *)
(* loop goes on with the next transaction; when it fails with an error     *)
(* that is not a VerifyError (an error of a chain query), the call stops   *)
(* there and fails with that error.                                        *)
C29_RemoveBlockErrors ==
    [][\A c \in 1..MaxCalls :
          RemoveBlockRuns(c) =>
             \A rand \in Rands, tie \in TieChoices :
                /\ FirstReinsertion(c, rand, tie).m.err.type = "VerifyError"
                   => /\ EmittedNext("error", calls[c].view.txs[1])
                      /\ WentOn(c)
                      /\ calls'[c].err = NoErr
                /\ FirstReinsertion(c, rand, tie).m.err.type = "Error"
                   => /\ calls'[c].pc = "done"
                      /\ calls'[c].err = IOError]_vars

-----------------------------------------------------------------------------
(* handleOrphans and the errors of the replays. *)

\* addTX(tx, id) during which the chain database fails for the orphan o
AddTXFailing(t, id, rand, tie, o) ==
    /\ Finish("addTX", <<t>>,
              _addTX([Self(chain, {}, rand, tie) EXCEPT !.bad = {o}], t, id),
              <<>>)
    /\ UNCHANGED <<options, flagged, chain, now, nprio, calls, locks>>

\* The same operations where w is a second child of pa and the scripts of a
\* fail: in the first world in the way that marks the error malleated, in
\* the second with a carrying witness data.
MalleatedFlags ==
    {<<"w", "input of a">>, <<"a", "verifyInputs">>,
     <<"a", "verifyInputs without witness">>}
WitnessedFlags ==
    {<<"w", "input of a">>, <<"a", "verifyInputs">>, <<"a", "hasWitness">>}

InitOrphans ==
    Opened({<<>>}, {DefaultOptions}, {MalleatedFlags, WitnessedFlags})

NextOrphans ==
    \/ Next
    \/ \E t \in Tx, id \in PeerIds, rand \in Rands, tie \in TieChoices :
          \E o \in DOMAIN orphans \ {t} : AddTXFailing(t, id, rand, tie, o)

SpecOrphans == InitOrphans /\ [][NextOrphans]_vars

-----------------------------------------------------------------------------
\* the 'bad orphan' events of the call
BadOrphans == {i \in 1..Len(last'.events) : last'.events[i].ev = "bad orphan"}

\* the orphans that waited for p alone: resolveOrphans(p) hands them to the
\* loop of handleOrphans(p)
ResolvedBy(p) == {o \in WaitingFor(p) : orphans[o].missing = 1}

\* the call replayed the orphan o and dealt with the outcome: o was added,
\* reported as a bad orphan, enrolled again, or rejected by maybeOrphan as
\* the child of a rejected parent
ReplayedNext(o) ==
    \/ EmittedNext("add entry", o)
    \/ EmittedNext("bad orphan", o)
    \/ EmittedNext("add orphan", o)
    \/ o \in rejects'

\* the call ended with an exception that is not a VerifyError
FailedNext == last'.err.type \notin {"none", "VerifyError"}

\* what handleOrphans leaves of an orphan whose replay failed with a
\* VerifyError, by its 'bad orphan' event e
Discarded(e) ==
    /\ e.err.type = "VerifyError"
    /\ e.tx \notin DOMAIN orphans'
    /\ e.tx \notin DOMAIN map'
    /\ e.tx \in rejects' <=>
          \/ e.tx \in rejects
          \/ ~has(e.tx, "hasWitness") /\ ~e.err.malleated
    /\ e.tx \in DOMAIN orphans
    /\ e.id = orphans[e.tx].id

(* C30: in an add_tx(p) whose handle_orphans reported a bad orphan, that   *)
(* orphan is in neither orphans nor by_hash afterwards, it has joined the  *)
(* reject filter iff it has no witness and the error is not malleated, the *)
(* event carries the peer id the orphan was stored with, every orphan      *)
(* resolved by p was replayed, and the call admitted p; a call in which a  *)
(* resolved orphan was not dealt with ended with the exception that is not *)
(* a VerifyError.                                                          *)
C30_BadOrphans ==
    [][\A p \in Tx :
          AddTXStep(p) =>
             /\ \A i \in BadOrphans : Discarded(last'.events[i])
             /\ (BadOrphans # {} /\ ~FailedNext) =>
                   /\ \A o \in ResolvedBy(p) : ReplayedNext(o)
                   /\ AdmittedNext
             /\ (\E o \in ResolvedBy(p) :
                    EmittedNext("add entry", p) /\ ~ReplayedNext(o))
                  => FailedNext /\ last'.err = IOError]_vars

-----------------------------------------------------------------------------
(* evictEntry, applied to an entry of the mempool as it stands. *)

\* e and the entries that transitively spend an output of e
PackageAt(e) == {e} \cup DescendantSet(e)

\* the places of the 'remove entry' event for x among the events of m2
RemovedAt(m2, x) ==
    {i \in 1..Len(m2.events) :
        m2.events[i].ev = "remove entry" /\ m2.events[i].tx = x}

\* m2 is the mempool with exactly the package of e removed
EvictedAs(m2, e) ==
    /\ ok(m2)
    /\ DOMAIN m2.map = Keys \ PackageAt(e)
    /\ DOMAIN m2.spents = {k \in DOMAIN spents : spents[k] \notin PackageAt(e)}
    /\ \A k \in DOMAIN m2.spents : m2.spents[k] = spents[k]
    /\ Len(m2.events) = Cardinality(PackageAt(e))
    /\ \A x \in PackageAt(e) : Cardinality(RemovedAt(m2, x)) = 1
    /\ \A x \in PackageAt(e), y \in PackageAt(e) :
          x \in Parents(y) =>
             \A i \in RemovedAt(m2, y), j \in RemovedAt(m2, x) : i < j
    /\ \A x \in DOMAIN m2.map : \A op \in InputSet(x) : op[1] \notin PackageAt(e)

(* C31: evict_entry(e) on an entry of the pool removes from by_hash and    *)
(* spent exactly e and the entries that transitively spend an output of e, *)
(* emits one 'remove entry' event for each of them, a spender before the   *)
(* entry it spends, and leaves no entry with an input whose parent hash is *)
(* a removed entry.                                                        *)
C31_EvictEntry ==
    \A e \in Keys : EvictedAs(evictEntry(Self(chain, {}, 0, "first"), e), e)

\* an entry with a child and a grandchild in the pool can be evicted
C31_Witness ==
    \E e \in Keys, x \in Keys, y \in Keys :
        /\ e \in Parents(x) /\ x \in Parents(y)
        /\ Keys \ PackageAt(e) # {}
        /\ EvictedAs(evictEntry(Self(chain, {}, 0, "first"), e), e)

-----------------------------------------------------------------------------
(* The first loop of limitSize. *)

\* the mempool and the heap after the first loop of limitSize on m
FirstPass(m) == limitExpire(m, Ordered(DOMAIN m.map, 1), EmptyMap)

\* the first loop evicts only the packages of expired entries without
\* in-pool parents
AgedOut(m, p) ==
    /\ ok(p.m)
    /\ \A x \in DOMAIN m.map \ DOMAIN p.m.map :
          \E r \in ExpiredEntries(m) : x \in PackageOf(m, {r})

\* as C32 has it: every entry the loop leaves is in the heap
AllQueued(m, p) ==
    /\ AgedOut(m, p)
    /\ \A x \in DOMAIN p.m.map : x \in DOMAIN p.queue

\* the heap holds the entries without in-pool parents that are not expired,
\* and none of the entries that have an in-pool parent
RootsQueued(m, p) ==
    /\ AgedOut(m, p)
    /\ DOMAIN p.m.map = AfterExpiry(m)
    /\ DOMAIN p.queue = HeapEntries(m)
    /\ \A x \in DOMAIN p.queue : p.queue[x] = m.map[x]
    /\ \A x \in DOMAIN p.m.map : hasDepends(m, x) => x \notin DOMAIN p.queue

\* The same operations on a mempool with room for d and two entries of the
\* smaller kind.
RoomyOptions == [DefaultOptions EXCEPT !.maxSize = 12]

InitRoomy == Opened({<<>>}, {RoomyOptions}, {{}})

SpecRoomy == InitRoomy /\ [][Next]_vars

(* C32: in the first pass of limit_size an entry is evicted for age only   *)
(* if it has no in-pool parent and now >= time + expiry_time (its spenders *)
(* go with it), and every entry the pass does not evict, with or without   *)
(* an in-pool parent, is inserted into the eviction heap.                  *)
C32_AllQueued ==
    \A t \in Tx, rand \in Rands, tie \in TieChoices :
        (ok(Tracked(t, rand, tie)) /\ Tracked(t, rand, tie).size > maxSize)
        => AllQueued(Tracked(t, rand, tie), FirstPass(Tracked(t, rand, tie)))

(* C32 as the code has it: the pass evicts only the packages of expired    *)
(* entries without in-pool parents, and inserts into the heap exactly the  *)
(* non-expired entries without in-pool parents; an entry with an in-pool   *)
(* parent is skipped, neither evicted on its own nor inserted.             *)
C32_RootsQueued ==
    \A t \in Tx, rand \in Rands, tie \in TieChoices :
        (ok(Tracked(t, rand, tie)) /\ Tracked(t, rand, tie).size > maxSize)
        => RootsQueued(Tracked(t, rand, tie),
                       FirstPass(Tracked(t, rand, tie)))

\* limitSize is called on a mempool with an expired entry, and its first
\* pass leaves a heap entry and an entry with an in-pool parent
C32_Witness ==
    \E t \in Tx, rand \in Rands, tie \in TieChoices :
        /\ ok(Tracked(t, rand, tie))
        /\ Tracked(t, rand, tie).size > maxSize
        /\ ExpiredEntries(Tracked(t, rand, tie)) # {}
        /\ DOMAIN FirstPass(Tracked(t, rand, tie)).queue # {}
        /\ \E x \in DOMAIN FirstPass(Tracked(t, rand, tie)).m.map :
              hasDepends(Tracked(t, rand, tie), x)
        /\ RootsQueued(Tracked(t, rand, tie),
                       FirstPass(Tracked(t, rand, tie)))

-----------------------------------------------------------------------------
(* prioritise, applied to an entry of the mempool as it stands. *)

\* the deltas offered to prioritise(entry, pri, fee)
PriDeltas == {-2, 0, 1}
FeeDeltas == {-3, -1, 0, 2}

\* r is the mempool after prioritise(t, pri, fee) as C33 describes it, f
\* being the clamped fee delta
PrioritisedAs(r, t, pri, f) ==
    /\ ok(r)
    /\ DOMAIN r.map = Keys
    /\ r.spents = spents
    /\ r.size = size
    /\ r.map[t].priority >= 0
    /\ r.map[t].deltaFee >= 0
    /\ r.map[t].deltaFee = map[t].deltaFee + f
    /\ r.map[t].descFee = map[t].descFee + f
    /\ \A a \in AncestorSet(t) :
          /\ r.map[a].descFee = map[a].descFee + f
          /\ r.map[a].deltaFee = map[a].deltaFee
    /\ \A x \in Keys : r.map[x].descSize = map[x].descSize
    /\ \A x \in Keys \ ({t} \cup AncestorSet(t)) : r.map[x] = map[x]
    /\ f = 0 =>
          \A x \in Keys : /\ r.map[x].deltaFee = map[x].deltaFee
                          /\ r.map[x].descFee = map[x].descFee
                          /\ r.map[x].fee = map[x].fee

(* C33: prioritise(entry, pri, fee) never fails; priority and deltaFee do  *)
(* not become negative; with f the clamped fee delta, deltaFee and descFee *)
(* of the entry and descFee of every in-pool ancestor grow by exactly f;   *)
(* descSize, every other entry, by_hash, spent and size are unchanged; and *)
(* no fee field changes when f is 0.                                       *)
C33_Prioritise ==
    \A t \in Keys, pri \in PriDeltas, fee \in FeeDeltas :
        PrioritisedAs(prioritise(Self(chain, {}, 0, "first"), t, pri, fee),
                      t, pri, clampDelta(fee, map[t].deltaFee))

\* The same operations on a mempool that allows one ancestor, opened on a
\* chain of three blocks that hold b, pa and a.
NarrowOptions == [DefaultOptions EXCEPT !.maxAncestors = 1]

InitNarrow ==
    Opened({<< <<"b">>, <<"pa">>, <<"a">> >>}, {NarrowOptions}, {{}})

SpecNarrow == InitNarrow /\ [][Next]_vars

-----------------------------------------------------------------------------
(* C34: with a persistent cache, when add_block or remove_block has        *)
(* returned, the tip stored in the database under R is the tip of the      *)
(* mempool, whatever the pool held when the block event arrived.           *)
C34_TipOnDisk ==
    (cache.db /\ last.op \in {"addBlock", "removeBlock"}
       /\ last.err.type = "none")
    => cache.disk.R = tip

-----------------------------------------------------------------------------
(* C35: in every reachable state removeOrphan(hash) on a stored orphan     *)
(* returns without an assertion failure: each waiting set under the parent *)
(* hash of an input of the orphan holds the orphan's hash.                 *)
C35_RemoveOrphan ==
    \A o \in DOMAIN orphans :
        /\ ok(removeOrphan(Self(chain, {}, 0, "first"), o))
        /\ \A op \in InputSet(o) :
              op[1] \in DOMAIN waiting => o \in Range(waiting[op[1]])

(* C36: in every reachable state every hash in a waiting set is a key of   *)
(* orphans and no waiting set is empty, so the assertions of               *)
(* resolve_orphans cannot fail.                                            *)
C36_WaitingSets ==
    \A p \in DOMAIN waiting :
        /\ waiting[p] # <<>>
        /\ \A o \in Range(waiting[p]) : o \in DOMAIN orphans
        /\ ok(resolveOrphans(Self(chain, {}, 0, "first"), p).m)

\* an add_tx evicted an orphan at random while c, one of whose two missing
\* parents has arrived, still waits for the other
C36_Witness ==
    /\ last.op = "addTX"
    /\ last.err.type = "none"
    /\ \E x \in Tx : Emitted("remove orphan", x)
    /\ "c" \in DOMAIN orphans
    /\ orphans["c"].missing = 1
    /\ "b" \in Keys
    /\ "a" \in DOMAIN waiting
    /\ "c" \in Range(waiting["a"])

-----------------------------------------------------------------------------
(* The rate pass of limitSize and its assertion. *)

\* the 'remove entry' events limitSize adds to those of m, r being the
\* mempool it leaves
EvictionsOf(m, r, x) ==
    {i \in (Len(m.events) + 1)..Len(r.events) :
        r.events[i].ev = "remove entry" /\ r.events[i].tx = x}

\* p is the mempool and the heap after the first loop on m, r the mempool
\* limitSize leaves: every entry of the heap is pooled when the rate pass
\* starts and belongs to the package of no other entry of the heap, the
\* rate pass does not fail, and no entry is evicted twice
HeapIntact(m, p, r) ==
    /\ ok(p.m)
    /\ \A x \in DOMAIN p.queue :
          /\ hasEntry(p.m, x)
          /\ \A y \in DOMAIN p.queue \ {x} : x \notin PackageOf(p.m, {y})
          /\ \A y \in ExpiredEntries(m) : x \notin PackageOf(m, {y})
    /\ ok(r)
    /\ \A x \in DOMAIN m.map : Cardinality(EvictionsOf(m, r, x)) <= 1
    /\ \A x \in DOMAIN m.map \ DOMAIN r.map :
          Cardinality(EvictionsOf(m, r, x)) = 1

(* C37: in the rate pass of limit_size every entry popped from the heap is *)
(* still in by_hash, so the assertion on it does not fail: no entry of the *)
(* heap is removed with an expired entry or with another entry of the      *)
(* heap, and no entry is evicted twice.                                    *)
C37_HeapIntact ==
    \A t \in Tx, rand \in Rands, tie \in TieChoices :
        (ok(Tracked(t, rand, tie)) /\ Tracked(t, rand, tie).size > maxSize)
        => HeapIntact(Tracked(t, rand, tie),
                      FirstPass(Tracked(t, rand, tie)),
                      limitSize(Tracked(t, rand, tie), t).m)

\* the rate pass pops two entries of the heap, one of them with a spender
\* that is removed with it
C37_Witness ==
    \E t \in Tx, rand \in Rands, tie \in TieChoices :
        /\ ok(Tracked(t, rand, tie))
        /\ Tracked(t, rand, tie).size > maxSize
        /\ ok(limitSize(Tracked(t, rand, tie), t).m)
        /\ Cardinality(DOMAIN FirstPass(Tracked(t, rand, tie)).queue
                       \ DOMAIN limitSize(Tracked(t, rand, tie), t).m.map)
           >= 2
        /\ \E x \in DOMAIN FirstPass(Tracked(t, rand, tie)).queue :
              /\ ~hasEntry(limitSize(Tracked(t, rand, tie), t).m, x)
              /\ PackageOf(Tracked(t, rand, tie), {x}) # {x}

-----------------------------------------------------------------------------
(* C38: in every reachable state every entry of by_hash has descFee at     *)
(* least its own deltaFee, which is not negative, and descSize at least    *)
(* its own size, which is positive.                                        *)
C38_PackageTotals ==
    \A e \in Keys :
        /\ map[e].deltaFee >= 0
        /\ map[e].descFee >= map[e].deltaFee
        /\ map[e].size > 0
        /\ map[e].descSize >= map[e].size

-----------------------------------------------------------------------------
(* C39: in every reachable state no hash is a key of both by_hash and      *)
(* orphans.                                                                *)
C39_OrphansApart == Keys \cap DOMAIN orphans = {}

\* an add_tx admitted pa and with it the orphan a that waited for pa, while
\* another orphan is still stored
C39_Witness ==
    /\ last.op = "addTX"
    /\ last.args = <<"pa">>
    /\ Emitted("add entry", "a")
    /\ {"pa", "a"} \subseteq Keys
    /\ DOMAIN orphans # {}
    /\ C39_OrphansApart

-----------------------------------------------------------------------------
(* C40: remove_block announces only pooled transactions.                   *)

\* this.map holds t when event i of the last call is emitted: the call added
\* t before and has not removed it since.  _removeBlock reaches the
\* reinsertion of t only when t is not pooled (mempool.js:284-285), and
\* every change of this.map emits 'add entry' or 'remove entry'.
PooledAt(t, i) ==
    \E j \in 1..(i - 1) :
        /\ last.events[j].ev = "add entry"
        /\ last.events[j].tx = t
        /\ \A k \in (j + 1)..(i - 1) :
              ~(last.events[k].ev = "remove entry" /\ last.events[k].tx = t)

\* C40: every 'unconfirmed' event of a remove_block names a transaction that
\* is in by_hash at the moment the event is emitted; a block transaction
\* stored as an orphan, dropped or rejected produces none.
C40_Unconfirmed ==
    last.op = "removeBlock" =>
        \A i \in 1..Len(last.events) :
            last.events[i].ev = "unconfirmed" => PooledAt(last.events[i].tx, i)

=============================================================================
